---- MODULE Spec2Model ----
(***************************************************************************)
(* Waggle sensor node: the bee counter, firmware/sensor/src/bee_counter.cpp *)
(*                                                                         *)
(* Each lane runs a direction-detection state machine driven by beam-break *)
(* interrupts (lane_beam_a_event, lane_beam_b_event), aged by              *)
(* lane_check_timeout and drained by bee_counter_snapshot.                 *)
(*                                                                         *)
(* Times are uint32_t milliseconds.  A uint32_t is held as two 16-bit      *)
(* halves [hi, lo] so that subtraction wraps modulo 2^32 as in the code.   *)
(***************************************************************************)
EXTENDS Integers, Sequences, FiniteSets, TLC

(***************************************************************************)
(* Program constants                                                       *)
(***************************************************************************)
NUM_CHANNELS == 4
DEBOUNCE_MS == 3
MIN_TRANSIT_MS == 5
MAX_TRANSIT_MS == 200
REFRACTORY_MS == 30
STUCK_BEAM_MS == 2000
UINT16_MAX == 65535

LANE_IDLE == "IDLE"
LANE_A_BROKEN == "A_BROKEN"
LANE_B_BROKEN == "B_BROKEN"
LANE_COOLDOWN == "COOLDOWN"

(***************************************************************************)
(* Bounds of the model                                                     *)
(***************************************************************************)
\* How many times the millisecond clock is advanced in one behaviour.
MaxTicks == 2


\* The amounts the clock advances by between operations: each timing
\* constant's boundary is hit exactly or missed by one.
Deltas == {2, 3, 5, 30, 200, 201, 2000}

\* The lane masks bee_counter_init is called with.
InitMasks == {4}

\* The clock values bee_counter_init is called at: power-on, a running
\* system, and 3 ms before the 32-bit millisecond clock wraps.
StartTimes ==
    {[hi |-> 0, lo |-> 0], [hi |-> 0, lo |-> 100], [hi |-> 65535, lo |-> 65533]}

(***************************************************************************)
(* uint32_t arithmetic                                                     *)
(***************************************************************************)
W16 == UINT16_MAX + 1

U32(n) == [hi |-> 0, lo |-> n]

\* a - b modulo 2^32
Sub32(a, b) ==
    LET d == a.lo - b.lo
    IN  [hi |-> (a.hi - b.hi - (IF d < 0 THEN 1 ELSE 0)) % W16, lo |-> d % W16]

\* a + n modulo 2^32, for 0 <= n < 2^16
Add32(a, n) ==
    LET s == a.lo + n
    IN  [hi |-> (a.hi + (s \div W16)) % W16, lo |-> s % W16]

\* comparisons of a uint32_t with a constant below 2^16
Lt32(a, n) == a.hi = 0 /\ a.lo < n
Gt32(a, n) == a.hi > 0 \/ a.lo > n
Ge32(a, n) == ~Lt32(a, n)
Le32(a, n) == ~Gt32(a, n)

Channels == 0 .. (NUM_CHANNELS - 1)

\* The clock value of a running system.
T0 == U32(100)

RECURSIVE Pow2(_)
Pow2(n) == IF n = 0 THEN 1 ELSE 2 * Pow2(n - 1)

\* mask & (1 << ch)
BitSet(mask, ch) == (mask \div Pow2(ch)) % 2 = 1

\* mask | (1 << ch)
OrBit(mask, ch) == IF BitSet(mask, ch) THEN mask ELSE mask + Pow2(ch)

(***************************************************************************)
(* State                                                                   *)
(***************************************************************************)
VARIABLES
    s_lanes,             \* LaneData s_lanes[NUM_CHANNELS]
    s_lane_mask,         \* enabled lanes (bitmask)
    s_last_snapshot_ms,  \* time of the previous snapshot
    clock,               \* millis()
    pc,                  \* main context: "main"; "snap" between the snapshot's
                         \* millis() and its critical section; "report" while
                         \* the caller holds the returned snapshot
    snap_now,            \* the snapshot's local `now`
    snap,                \* the BeeCountSnapshot last returned
    hist,                \* per lane: the last operation applied to it
    ticks,               \* clock advances so far
    s_mux,               \* the spinlock: "free", or "snap" while the snapshot
                         \* is inside its critical section
    snap_loc,            \* the snapshot's loop index ch and its locals
                         \* in_count, out_count
    audit,               \* bookkeeping: increments made by the edge handlers,
                         \* counts and stuck lanes returned by snapshots, and
                         \* the lanes as the running snapshot found them on
                         \* entry
    input,               \* the arguments of the function being applied
                         \* (cobs_encode, crc8, payload_build, ...)
    output,              \* what it returned, NotCalled before the call
    serial,              \* bridge: the bytes written to Serial so far
    led_state,           \* bridge: static volatile bool led_state
    err_bad_len,         \* bridge: static volatile uint32_t err_bad_len
    rx,                  \* bridge: the ESP-NOW packets received so far
    send_done,           \* comms: static volatile bool send_done
    send_success,        \* comms: static volatile bool send_success
    tx,                  \* comms: where comms_send is, its locals, the
                         \* deliveries the radio still has to report and a
                         \* record of what has happened during the call
    s_sequence,          \* main: RTC_DATA_ATTR static uint16_t s_sequence
    cycles               \* main: whether setup() has returned (where), static bool
                         \* s_bee_counter_ready (ready), and a record of the wakes:
                         \* how many, how many of them configured, how the last
                         \* one's transmission ended

\* The bee counter's state and the model's bookkeeping of it.
counter_vars == <<s_lanes, s_lane_mask, s_last_snapshot_ms, clock, pc, snap_now, snap,
                  hist, ticks, s_mux, snap_loc, audit>>

\* The function under application and the bridge: the bee counter touches
\* neither.
call_vars == <<input, output>>

bridge_vars == <<serial, led_state, err_bad_len, rx>>

comms_vars == <<send_done, send_success, tx>>

node_vars == <<s_sequence, cycles>>

other_vars == <<call_vars, bridge_vars, comms_vars, node_vars>>

vars == <<counter_vars, other_vars>>

NotCalled == [called |-> FALSE]

\* No function is being applied.
NoCall ==
    /\ input = NotCalled
    /\ output = NotCalled

\* The bridge after setup(): nothing written, LED off, no bad length seen.
BridgeInit ==
    /\ serial = <<>>
    /\ led_state = FALSE
    /\ err_bad_len = 0
    /\ rx = <<>>

\* comms.cpp before any comms_send: both flags false, nothing in the air.
NoSend ==
    [pc |-> "idle", calls |-> 0, attempt |-> 0, waited |-> 0, pending |-> <<>>,
     cb |-> "none", sends |-> 0, acked |-> FALSE, reported |-> FALSE,
     result |-> "none"]

CommsInit ==
    /\ send_done = FALSE
    /\ send_success = FALSE
    /\ tx = NoSend

\* The sensor node at power-on: s_sequence = 0, no wake cycle yet.
NodeInit ==
    /\ s_sequence = 0
    /\ cycles = [where |-> "setup", ready |-> FALSE, wakes |-> 0, configured |-> 0,
                 last |-> "none"]

OtherInit == NoCall /\ BridgeInit /\ CommsInit /\ NodeInit

\* memset(&s_lanes[ch], 0, sizeof(LaneData)); state = LANE_IDLE
LaneZero ==
    [state |-> LANE_IDLE, state_enter_ms |-> U32(0),
     last_edge_a_ms |-> U32(0), last_edge_b_ms |-> U32(0),
     bees_in |-> 0, bees_out |-> 0, stuck |-> FALSE]

NoSnapshot ==
    [bees_in |-> 0, bees_out |-> 0, period_ms |-> U32(0),
     lane_mask |-> 0, stuck_mask |-> 0, valid |-> FALSE]

\* hist[ch]: op is the operation, at its now_ms, pre the lane's state before
\* it, acc whether it changed the lane (an edge: whether it passed the
\* debounce test).
NoOp == [op |-> "none", at |-> U32(0), pre |-> LANE_IDLE, acc |-> FALSE]

Did(name, now_ms, before, after) ==
    [op |-> name, at |-> now_ms, pre |-> before.state, acc |-> after # before]

NoLocals == [ch |-> 0, in_count |-> 0, out_count |-> 0]

NoAudit(lanes) ==
    [counted_in |-> 0, counted_out |-> 0, reported_in |-> 0, reported_out |-> 0,
     stuck_seen |-> {}, entry |-> lanes]

\* The handler that turned lane `before` into `after` has made these
\* increments.
Counted(a, before, after) ==
    [a EXCEPT !.counted_in = @ + (after.bees_in - before.bees_in),
              !.counted_out = @ + (after.bees_out - before.bees_out)]

\* A snapshot has returned result; the record of what it found on entry is
\* dropped.
Reported(a, result) ==
    [a EXCEPT !.reported_in = @ + result.bees_in,
              !.reported_out = @ + result.bees_out,
              !.stuck_seen = @ \cup {ch \in Channels : BitSet(result.stuck_mask, ch)},
              !.entry = [ch \in Channels |-> LaneZero]]

\* portENTER_CRITICAL(&s_mux) / portENTER_CRITICAL_ISR(&s_mux) go through
\* when nobody holds the spinlock.  Before it, the handler that does not
\* take the lock.
MuxNotTaken == TRUE

MuxFree == s_mux = "free"

(***************************************************************************)
(* The lane state machine (pure logic)                                     *)
(***************************************************************************)
\* transit >= MIN_TRANSIT_MS && transit <= MAX_TRANSIT_MS, with two plausible
\* slips of it first: both bounds exclusive, and the lower bound forgotten.
InWindowExclusive(transit) == Gt32(transit, MIN_TRANSIT_MS) /\ Lt32(transit, MAX_TRANSIT_MS)

InWindowNoMin(transit) == Le32(transit, MAX_TRANSIT_MS)

InWindow(transit) == Ge32(transit, MIN_TRANSIT_MS) /\ Le32(transit, MAX_TRANSIT_MS)

\* (now_ms - last_edge_ms) < DEBOUNCE_MS, with an off-by-one slip of it first.
DebouncedShort(last_edge_ms, now_ms) == Lt32(Sub32(now_ms, last_edge_ms), DEBOUNCE_MS - 1)

Debounced(last_edge_ms, now_ms) == Lt32(Sub32(now_ms, last_edge_ms), DEBOUNCE_MS)

\* lane_beam_a_event that takes an edge in COOLDOWN as the start of a transit.
lane_beam_a_event_rearm(lane, now_ms) ==
    IF Debounced(lane.last_edge_a_ms, now_ms)
    THEN lane
    ELSE LET l == [lane EXCEPT !.last_edge_a_ms = now_ms]
         IN  CASE l.state \in {LANE_IDLE, LANE_COOLDOWN} ->
                    [l EXCEPT !.state = LANE_A_BROKEN, !.state_enter_ms = now_ms]
               [] l.state = LANE_B_BROKEN ->
                    LET transit == Sub32(now_ms, l.state_enter_ms)
                    IN  [l EXCEPT !.bees_out = IF InWindow(transit) THEN @ + 1 ELSE @,
                                  !.state = LANE_COOLDOWN,
                                  !.state_enter_ms = now_ms]
               [] OTHER -> l

\* lane_beam_a_event with the direction swapped: a slip that counts the
\* completing A edge as a bee entering.
lane_beam_a_event_swapped(lane, now_ms) ==
    IF Debounced(lane.last_edge_a_ms, now_ms)
    THEN lane
    ELSE LET l == [lane EXCEPT !.last_edge_a_ms = now_ms]
         IN  CASE l.state = LANE_IDLE ->
                    [l EXCEPT !.state = LANE_A_BROKEN, !.state_enter_ms = now_ms]
               [] l.state = LANE_B_BROKEN ->
                    LET transit == Sub32(now_ms, l.state_enter_ms)
                    IN  [l EXCEPT !.bees_in = IF InWindow(transit) THEN @ + 1 ELSE @,
                                  !.state = LANE_COOLDOWN,
                                  !.state_enter_ms = now_ms]
               [] OTHER -> l

lane_beam_a_event(lane, now_ms) ==
    IF Debounced(lane.last_edge_a_ms, now_ms)
    THEN lane
    ELSE LET l == [lane EXCEPT !.last_edge_a_ms = now_ms]
         IN  CASE l.state = LANE_IDLE ->
                    [l EXCEPT !.state = LANE_A_BROKEN, !.state_enter_ms = now_ms]
               [] l.state = LANE_B_BROKEN ->
                    LET transit == Sub32(now_ms, l.state_enter_ms)
                    IN  [l EXCEPT !.bees_out = IF InWindow(transit) THEN @ + 1 ELSE @,
                                  !.state = LANE_COOLDOWN,
                                  !.state_enter_ms = now_ms]
               [] OTHER -> l

\* lane_beam_b_event with two slips of it first: the completing edge bumps
\* both counters; an edge re-arms a lane that is in COOLDOWN.
lane_beam_b_event_both(lane, now_ms) ==
    IF Debounced(lane.last_edge_b_ms, now_ms)
    THEN lane
    ELSE LET l == [lane EXCEPT !.last_edge_b_ms = now_ms]
         IN  CASE l.state = LANE_IDLE ->
                    [l EXCEPT !.state = LANE_B_BROKEN, !.state_enter_ms = now_ms]
               [] l.state = LANE_A_BROKEN ->
                    LET transit == Sub32(now_ms, l.state_enter_ms)
                    IN  [l EXCEPT !.bees_in = IF InWindow(transit) THEN @ + 1 ELSE @,
                                  !.bees_out = IF InWindow(transit) THEN @ + 1 ELSE @,
                                  !.state = LANE_COOLDOWN,
                                  !.state_enter_ms = now_ms]
               [] OTHER -> l

lane_beam_b_event_rearm(lane, now_ms) ==
    IF Debounced(lane.last_edge_b_ms, now_ms)
    THEN lane
    ELSE LET l == [lane EXCEPT !.last_edge_b_ms = now_ms]
         IN  CASE l.state \in {LANE_IDLE, LANE_COOLDOWN} ->
                    [l EXCEPT !.state = LANE_B_BROKEN, !.state_enter_ms = now_ms]
               [] l.state = LANE_A_BROKEN ->
                    LET transit == Sub32(now_ms, l.state_enter_ms)
                    IN  [l EXCEPT !.bees_in = IF InWindow(transit) THEN @ + 1 ELSE @,
                                  !.state = LANE_COOLDOWN,
                                  !.state_enter_ms = now_ms]
               [] OTHER -> l

lane_beam_b_event(lane, now_ms) ==
    IF Debounced(lane.last_edge_b_ms, now_ms)
    THEN lane
    ELSE LET l == [lane EXCEPT !.last_edge_b_ms = now_ms]
         IN  CASE l.state = LANE_IDLE ->
                    [l EXCEPT !.state = LANE_B_BROKEN, !.state_enter_ms = now_ms]
               [] l.state = LANE_A_BROKEN ->
                    LET transit == Sub32(now_ms, l.state_enter_ms)
                    IN  [l EXCEPT !.bees_in = IF InWindow(transit) THEN @ + 1 ELSE @,
                                  !.state = LANE_COOLDOWN,
                                  !.state_enter_ms = now_ms]
               [] OTHER -> l

\* elapsed > MAX_TRANSIT_MS, with the off-by-one slip first.
TimedOutInclusive(elapsed) == Ge32(elapsed, MAX_TRANSIT_MS)

TimedOut(elapsed) == Gt32(elapsed, MAX_TRANSIT_MS)

\* elapsed >= REFRACTORY_MS, with the off-by-one slip first.
RefractoryOverExclusive(elapsed) == Gt32(elapsed, REFRACTORY_MS)

RefractoryOver(elapsed) == Ge32(elapsed, REFRACTORY_MS)

\* lane_check_timeout with the stuck test applied in LANE_IDLE as well.
lane_check_timeout_idle_stuck(lane, now_ms) ==
    LET elapsed == Sub32(now_ms, lane.state_enter_ms)
    IN  CASE lane.state \in {LANE_A_BROKEN, LANE_B_BROKEN} ->
               [lane EXCEPT !.state = IF TimedOut(elapsed) THEN LANE_IDLE ELSE @,
                            !.stuck = IF Gt32(elapsed, STUCK_BEAM_MS) THEN TRUE ELSE @]
          [] lane.state = LANE_COOLDOWN ->
               [lane EXCEPT !.state = IF RefractoryOver(elapsed) THEN LANE_IDLE ELSE @]
          [] OTHER ->
               [lane EXCEPT !.stuck = IF Gt32(elapsed, STUCK_BEAM_MS) THEN TRUE ELSE @]

\* lane_check_timeout with the stuck test made an else-branch of the timeout
\* test: a slip that never latches stuck, MAX_TRANSIT_MS being < STUCK_BEAM_MS.
lane_check_timeout_else_stuck(lane, now_ms) ==
    LET elapsed == Sub32(now_ms, lane.state_enter_ms)
    IN  CASE lane.state \in {LANE_A_BROKEN, LANE_B_BROKEN} ->
               IF TimedOut(elapsed)
               THEN [lane EXCEPT !.state = LANE_IDLE]
               ELSE [lane EXCEPT !.stuck = IF Gt32(elapsed, STUCK_BEAM_MS) THEN TRUE ELSE @]
          [] lane.state = LANE_COOLDOWN ->
               [lane EXCEPT !.state = IF RefractoryOver(elapsed) THEN LANE_IDLE ELSE @]
          [] OTHER -> lane

\* lane_check_timeout with the COOLDOWN case left out of the switch.
lane_check_timeout_no_cooldown(lane, now_ms) ==
    LET elapsed == Sub32(now_ms, lane.state_enter_ms)
    IN  CASE lane.state \in {LANE_A_BROKEN, LANE_B_BROKEN} ->
               [lane EXCEPT !.state = IF TimedOut(elapsed) THEN LANE_IDLE ELSE @,
                            !.stuck = IF Gt32(elapsed, STUCK_BEAM_MS) THEN TRUE ELSE @]
          [] OTHER -> lane

lane_check_timeout(lane, now_ms) ==
    LET elapsed == Sub32(now_ms, lane.state_enter_ms)
    IN  CASE lane.state \in {LANE_A_BROKEN, LANE_B_BROKEN} ->
               [lane EXCEPT !.state = IF TimedOut(elapsed) THEN LANE_IDLE ELSE @,
                            !.stuck = IF Gt32(elapsed, STUCK_BEAM_MS) THEN TRUE ELSE @]
          [] lane.state = LANE_COOLDOWN ->
               [lane EXCEPT !.state = IF RefractoryOver(elapsed) THEN LANE_IDLE ELSE @]
          [] OTHER -> lane

(***************************************************************************)
(* bee_counter_snapshot                                                    *)
(***************************************************************************)
\* (count > 65535) ? 65535 : (uint16_t)count
Clamp16(count) == IF count > UINT16_MAX THEN UINT16_MAX ELSE count % W16

\* What one iteration of the loop over the channels leaves of an enabled
\* lane: checked for timeout, counters reset, stuck cleared.  Before it, the
\* slip that reports stuck without clearing it.
SnapLaneKeepStuck(lane, now) ==
    LET l == lane_check_timeout(lane, now)
    IN  [l EXCEPT !.bees_in = 0, !.bees_out = 0]

SnapLane(lane, now) ==
    LET l == lane_check_timeout(lane, now)
    IN  [l EXCEPT !.bees_in = 0, !.bees_out = 0, !.stuck = FALSE]

\* The loop over the channels without its test of s_lane_mask: every lane
\* is checked and accumulated.
RECURSIVE SnapAccAllLanes(_, _, _, _)
SnapAccAllLanes(ch, lanes, mask, now) ==
    IF ch < 0
    THEN [bees_in |-> 0, bees_out |-> 0, stuck_mask |-> 0]
    ELSE LET acc == SnapAccAllLanes(ch - 1, lanes, mask, now)
             l   == lane_check_timeout(lanes[ch], now)
         IN  [bees_in    |-> (acc.bees_in + Clamp16(l.bees_in)) % W16,
              bees_out   |-> (acc.bees_out + Clamp16(l.bees_out)) % W16,
              stuck_mask |-> IF l.stuck THEN OrBit(acc.stuck_mask, ch)
                             ELSE acc.stuck_mask]

\* The loop over the channels 0 .. ch, as the accumulator it builds (uint16_t
\* bees_in and bees_out, uint8_t stuck_mask).
RECURSIVE SnapAcc(_, _, _, _)
SnapAcc(ch, lanes, mask, now) ==
    IF ch < 0
    THEN [bees_in |-> 0, bees_out |-> 0, stuck_mask |-> 0]
    ELSE LET acc == SnapAcc(ch - 1, lanes, mask, now)
             l   == lane_check_timeout(lanes[ch], now)
         IN  IF ~BitSet(mask, ch)
             THEN acc
             ELSE [bees_in    |-> (acc.bees_in + Clamp16(l.bees_in)) % W16,
                   bees_out   |-> (acc.bees_out + Clamp16(l.bees_out)) % W16,
                   stuck_mask |-> IF l.stuck THEN OrBit(acc.stuck_mask, ch)
                                  ELSE acc.stuck_mask]

\* The final clamp of the totals (a uint16_t never exceeds 65535).
ClampTotal(n) == IF n > UINT16_MAX THEN UINT16_MAX ELSE n

bee_counter_snapshot(lanes, mask, last_ms, now) ==
    LET acc == SnapAcc(NUM_CHANNELS - 1, lanes, mask, now)
    IN  [bees_in    |-> ClampTotal(acc.bees_in),
         bees_out   |-> ClampTotal(acc.bees_out),
         period_ms  |-> Sub32(now, last_ms),
         lane_mask  |-> mask,
         stuck_mask |-> acc.stuck_mask,
         valid      |-> TRUE]

(***************************************************************************)
(* Operations                                                              *)
(***************************************************************************)
\* bee_counter_init(lane_mask), called when millis() = now
bee_counter_init(lane_mask, now) ==
    /\ s_lane_mask = lane_mask
    /\ clock = now
    /\ s_last_snapshot_ms = now
    /\ s_lanes = [ch \in Channels |-> LaneZero]
    /\ pc = "main"
    /\ snap_now = U32(0)
    /\ snap = NoSnapshot
    /\ hist = [ch \in Channels |-> NoOp]
    /\ ticks = 0
    /\ s_mux = "free"
    /\ snap_loc = NoLocals
    /\ audit = NoAudit([ch \in Channels |-> LaneZero])

\* The device runs no bee counter: its variables stay as they are at rest.
CounterAbsent == bee_counter_init(0, U32(0))

Init ==
    /\ \E lane_mask \in InitMasks, now \in StartTimes : bee_counter_init(lane_mask, now)
    /\ OtherInit

\* isr_beam_a_<ch>: beam A of an enabled lane reads LOW
IsrBeamA(ch) ==
    /\ BitSet(s_lane_mask, ch)
    /\ MuxFree
    /\ s_lanes' = [s_lanes EXCEPT ![ch] = lane_beam_a_event(@, clock)]
    /\ hist' = [hist EXCEPT ![ch] = Did("A", clock, s_lanes[ch], s_lanes'[ch])]
    /\ audit' = Counted(audit, s_lanes[ch], s_lanes'[ch])
    /\ UNCHANGED other_vars
    /\ UNCHANGED <<s_lane_mask, s_last_snapshot_ms, clock, pc, snap_now, snap, ticks,
                   s_mux, snap_loc>>

\* isr_beam_b_<ch>: beam B of an enabled lane reads LOW
IsrBeamB(ch) ==
    /\ BitSet(s_lane_mask, ch)
    /\ MuxFree
    /\ s_lanes' = [s_lanes EXCEPT ![ch] = lane_beam_b_event(@, clock)]
    /\ hist' = [hist EXCEPT ![ch] = Did("B", clock, s_lanes[ch], s_lanes'[ch])]
    /\ audit' = Counted(audit, s_lanes[ch], s_lanes'[ch])
    /\ UNCHANGED other_vars
    /\ UNCHANGED <<s_lane_mask, s_last_snapshot_ms, clock, pc, snap_now, snap, ticks,
                   s_mux, snap_loc>>

\* lane_check_timeout called periodically from the main loop on one lane
CheckTimeout(ch) ==
    /\ pc = "main"
    /\ BitSet(s_lane_mask, ch)
    /\ s_lanes' = [s_lanes EXCEPT ![ch] = lane_check_timeout(@, clock)]
    /\ hist' = [hist EXCEPT ![ch] = Did("check", clock, s_lanes[ch], s_lanes'[ch])]
    /\ UNCHANGED other_vars
    /\ UNCHANGED <<s_lane_mask, s_last_snapshot_ms, clock, pc, snap_now, snap, ticks,
                   s_mux, snap_loc, audit>>

\* bee_counter_snapshot, up to its critical section: now = millis()
SnapshotBegin ==
    /\ pc = "main"
    /\ pc' = "snap"
    /\ snap_now' = clock
    /\ UNCHANGED other_vars
    /\ UNCHANGED <<s_lanes, s_lane_mask, s_last_snapshot_ms, clock, snap, hist, ticks,
                   s_mux, snap_loc, audit>>

\* bee_counter_snapshot, from portENTER_CRITICAL to its return, as the one
\* step the spinlock makes of it
SnapshotCritical ==
    /\ pc = "snap"
    /\ MuxFree
    /\ pc' = "report"
    /\ snap_now' = U32(0)
    /\ snap' = bee_counter_snapshot(s_lanes, s_lane_mask, s_last_snapshot_ms, snap_now)
    /\ s_lanes' = [ch \in Channels |->
                     IF BitSet(s_lane_mask, ch) THEN SnapLane(s_lanes[ch], snap_now)
                     ELSE s_lanes[ch]]
    /\ hist' = [ch \in Channels |->
                  IF BitSet(s_lane_mask, ch)
                  THEN Did("snap", snap_now, s_lanes[ch], s_lanes'[ch])
                  ELSE hist[ch]]
    /\ s_last_snapshot_ms' = snap_now
    /\ audit' = Reported(audit, snap')
    /\ UNCHANGED other_vars
    /\ UNCHANGED <<s_lane_mask, clock, ticks, s_mux, snap_loc>>

\* The caller has consumed the returned snapshot (setup / loop build the
\* payload from it and go to sleep).
Report ==
    /\ pc = "report"
    /\ pc' = "main"
    /\ snap' = NoSnapshot
    /\ UNCHANGED other_vars
    /\ UNCHANGED <<s_lanes, s_lane_mask, s_last_snapshot_ms, clock, snap_now, hist,
                   ticks, s_mux, snap_loc, audit>>

\* time passes
Tick ==
    /\ ticks < MaxTicks
    /\ \E d \in Deltas : clock' = Add32(clock, d)
    /\ ticks' = ticks + 1
    /\ UNCHANGED other_vars
    /\ UNCHANGED <<s_lanes, s_lane_mask, s_last_snapshot_ms, pc, snap_now, snap, hist,
                   s_mux, snap_loc, audit>>

(***************************************************************************)
(* Spec: the lane state machine driven as the interface documents it:      *)
(* beam edges from the interrupts, lane_check_timeout called periodically. *)
(***************************************************************************)
Next ==
    \/ \E ch \in Channels : IsrBeamA(ch)
    \/ \E ch \in Channels : IsrBeamB(ch)
    \/ \E ch \in Channels : CheckTimeout(ch)
    \/ Tick

Spec == Init /\ [][Next]_vars

(***************************************************************************)
(* SpecSnap: bee_counter_snapshot applied to the module state.  The lanes  *)
(* start in states the state machine reaches from LaneZero (each built     *)
(* here by the operations that reach it), under every lane mask.           *)
(***************************************************************************)
LaneA     == lane_beam_a_event(LaneZero, T0)
LaneB     == lane_beam_b_event(LaneZero, T0)
LaneIn    == lane_beam_b_event(LaneA, Add32(T0, 5))
LaneInOut ==
    lane_beam_a_event(
        lane_beam_b_event(lane_check_timeout(LaneIn, Add32(T0, 35)), Add32(T0, 35)),
        Add32(T0, 40))
LaneStuck == lane_check_timeout(LaneA, Add32(T0, 2001))

SnapLanes == {LaneZero, LaneA, LaneB, LaneIn, LaneInOut, LaneStuck}

\* The times the snapshot is taken at: with the open transits still within
\* MAX_TRANSIT_MS, and with them older than STUCK_BEAM_MS.
SnapTimes == {Add32(T0, 45), Add32(T0, 2101)}

SnapInit ==
    /\ s_lane_mask \in 0 .. (Pow2(NUM_CHANNELS) - 1)
    /\ clock \in SnapTimes
    /\ s_last_snapshot_ms = T0
    /\ s_lanes \in [Channels -> SnapLanes]
    /\ pc = "main"
    /\ snap_now = U32(0)
    /\ snap = NoSnapshot
    /\ hist = [ch \in Channels |-> NoOp]
    /\ ticks = 0
    /\ s_mux = "free"
    /\ snap_loc = NoLocals
    /\ audit = NoAudit([ch \in Channels |-> LaneZero])
    /\ OtherInit

NextSnap ==
    \/ SnapshotBegin
    \/ SnapshotCritical
    \/ Report

SpecSnap == SnapInit /\ [][NextSnap]_vars

(***************************************************************************)
(* SpecFw: the firmware.  The beam interrupts run against the main loop,   *)
(* whose only use of the counter is bee_counter_snapshot; the snapshot is  *)
(* taken statement by statement, so that what keeps the interrupts out of  *)
(* it is the spinlock and nothing else.                                    *)
(***************************************************************************)
\* portENTER_CRITICAL(&s_mux); snap.bees_in = 0; snap.bees_out = 0;
\* snap.stuck_mask = 0; ch = 0
SnapEnter ==
    /\ pc = "snap"
    /\ MuxFree
    /\ s_mux' = "snap"
    /\ pc' = "loop"
    /\ snap' = NoSnapshot
    /\ snap_loc' = NoLocals
    /\ audit' = [audit EXCEPT !.entry = s_lanes]
    /\ UNCHANGED other_vars
    /\ UNCHANGED <<s_lanes, s_lane_mask, s_last_snapshot_ms, clock, snap_now, hist,
                   ticks>>

\* if (!(s_lane_mask & (1 << ch))) continue;
SnapSkip ==
    /\ pc = "loop"
    /\ snap_loc.ch < NUM_CHANNELS
    /\ ~BitSet(s_lane_mask, snap_loc.ch)
    /\ snap_loc' = [snap_loc EXCEPT !.ch = @ + 1]
    /\ UNCHANGED other_vars
    /\ UNCHANGED <<s_lanes, s_lane_mask, s_last_snapshot_ms, clock, pc, snap_now, snap,
                   hist, ticks, s_mux, audit>>

\* lane_check_timeout(&s_lanes[ch], now);
SnapCheck ==
    /\ pc = "loop"
    /\ snap_loc.ch < NUM_CHANNELS
    /\ BitSet(s_lane_mask, snap_loc.ch)
    /\ pc' = "checked"
    /\ s_lanes' = [s_lanes EXCEPT ![snap_loc.ch] = lane_check_timeout(@, snap_now)]
    /\ hist' = [hist EXCEPT ![snap_loc.ch] =
                   Did("snap", snap_now, s_lanes[snap_loc.ch], s_lanes'[snap_loc.ch])]
    /\ UNCHANGED other_vars
    /\ UNCHANGED <<s_lane_mask, s_last_snapshot_ms, clock, snap_now, snap, ticks, s_mux,
                   snap_loc, audit>>

\* in_count = s_lanes[ch].bees_in; out_count = s_lanes[ch].bees_out;
SnapRead ==
    /\ pc = "checked"
    /\ pc' = "read"
    /\ snap_loc' = [snap_loc EXCEPT !.in_count = s_lanes[snap_loc.ch].bees_in,
                                    !.out_count = s_lanes[snap_loc.ch].bees_out]
    /\ UNCHANGED other_vars
    /\ UNCHANGED <<s_lanes, s_lane_mask, s_last_snapshot_ms, clock, snap_now, snap, hist,
                   ticks, s_mux, audit>>

\* the counters are reset, the locals added to the totals, stuck reported and
\* cleared; ch++.  Two slips of it first: the whole lane is reset, state
\* included; stuck is reported and not cleared.
SnapResetRestart ==
    /\ pc = "read"
    /\ pc' = "loop"
    /\ s_lanes' = [s_lanes EXCEPT ![snap_loc.ch] =
                      [@ EXCEPT !.bees_in = 0, !.bees_out = 0, !.stuck = FALSE,
                                !.state = LANE_IDLE]]
    /\ snap' = [snap EXCEPT
                  !.bees_in = (@ + Clamp16(snap_loc.in_count)) % W16,
                  !.bees_out = (@ + Clamp16(snap_loc.out_count)) % W16,
                  !.stuck_mask = IF s_lanes[snap_loc.ch].stuck
                                 THEN OrBit(@, snap_loc.ch) ELSE @]
    /\ hist' = [hist EXCEPT ![snap_loc.ch] =
                   [@ EXCEPT !.acc = @ \/ s_lanes'[snap_loc.ch] # s_lanes[snap_loc.ch]]]
    /\ snap_loc' = [ch |-> snap_loc.ch + 1, in_count |-> 0, out_count |-> 0]
    /\ UNCHANGED other_vars
    /\ UNCHANGED <<s_lane_mask, s_last_snapshot_ms, clock, snap_now, ticks, s_mux, audit>>

SnapResetKeepStuck ==
    /\ pc = "read"
    /\ pc' = "loop"
    /\ s_lanes' = [s_lanes EXCEPT ![snap_loc.ch] =
                      [@ EXCEPT !.bees_in = 0, !.bees_out = 0]]
    /\ snap' = [snap EXCEPT
                  !.bees_in = (@ + Clamp16(snap_loc.in_count)) % W16,
                  !.bees_out = (@ + Clamp16(snap_loc.out_count)) % W16,
                  !.stuck_mask = IF s_lanes[snap_loc.ch].stuck
                                 THEN OrBit(@, snap_loc.ch) ELSE @]
    /\ hist' = [hist EXCEPT ![snap_loc.ch] =
                   [@ EXCEPT !.acc = @ \/ s_lanes'[snap_loc.ch] # s_lanes[snap_loc.ch]]]
    /\ snap_loc' = [ch |-> snap_loc.ch + 1, in_count |-> 0, out_count |-> 0]
    /\ UNCHANGED other_vars
    /\ UNCHANGED <<s_lane_mask, s_last_snapshot_ms, clock, snap_now, ticks, s_mux, audit>>

SnapReset ==
    /\ pc = "read"
    /\ pc' = "loop"
    /\ s_lanes' = [s_lanes EXCEPT ![snap_loc.ch] =
                      [@ EXCEPT !.bees_in = 0, !.bees_out = 0, !.stuck = FALSE]]
    /\ snap' = [snap EXCEPT
                  !.bees_in = (@ + Clamp16(snap_loc.in_count)) % W16,
                  !.bees_out = (@ + Clamp16(snap_loc.out_count)) % W16,
                  !.stuck_mask = IF s_lanes[snap_loc.ch].stuck
                                 THEN OrBit(@, snap_loc.ch) ELSE @]
    /\ hist' = [hist EXCEPT ![snap_loc.ch] =
                   [@ EXCEPT !.acc = @ \/ s_lanes'[snap_loc.ch] # s_lanes[snap_loc.ch]]]
    /\ snap_loc' = [ch |-> snap_loc.ch + 1, in_count |-> 0, out_count |-> 0]
    /\ UNCHANGED other_vars
    /\ UNCHANGED <<s_lane_mask, s_last_snapshot_ms, clock, snap_now, ticks, s_mux, audit>>

\* after the loop: period_ms, s_last_snapshot_ms, lane_mask,
\* portEXIT_CRITICAL(&s_mux), the final clamp, return
SnapExit ==
    /\ pc = "loop"
    /\ snap_loc.ch = NUM_CHANNELS
    /\ pc' = "report"
    /\ snap' = [bees_in    |-> ClampTotal(snap.bees_in),
                bees_out   |-> ClampTotal(snap.bees_out),
                period_ms  |-> Sub32(snap_now, s_last_snapshot_ms),
                lane_mask  |-> s_lane_mask,
                stuck_mask |-> snap.stuck_mask,
                valid      |-> TRUE]
    /\ s_last_snapshot_ms' = snap_now
    /\ s_mux' = "free"
    /\ snap_now' = U32(0)
    /\ snap_loc' = NoLocals
    /\ audit' = Reported(audit, snap')
    /\ UNCHANGED other_vars
    /\ UNCHANGED <<s_lanes, s_lane_mask, clock, hist, ticks>>

\* The firmware is followed from one start of the counter, for a few clock
\* advances that open and close a transit window, end a cooldown and leave a
\* beam broken for longer than STUCK_BEAM_MS.
MaxFwTicks == 2

FwDeltas == {MIN_TRANSIT_MS, REFRACTORY_MS, STUCK_BEAM_MS + 1}

FwInit == bee_counter_init(4, T0) /\ OtherInit

FwTick ==
    /\ ticks < MaxFwTicks
    /\ \E d \in FwDeltas : clock' = Add32(clock, d)
    /\ ticks' = ticks + 1
    /\ UNCHANGED other_vars
    /\ UNCHANGED <<s_lanes, s_lane_mask, s_last_snapshot_ms, pc, snap_now, snap, hist,
                   s_mux, snap_loc, audit>>

NextFw ==
    \/ \E ch \in Channels : IsrBeamA(ch)
    \/ \E ch \in Channels : IsrBeamB(ch)
    \/ SnapshotBegin
    \/ SnapEnter
    \/ SnapSkip
    \/ SnapCheck
    \/ SnapRead
    \/ SnapReset
    \/ SnapExit
    \/ Report
    \/ FwTick

SpecFw == FwInit /\ [][NextFw]_vars

(***************************************************************************)
(* SpecSat: bee_counter_snapshot applied to lanes whose uint32_t counters  *)
(* have grown large between two snapshots.                                 *)
(***************************************************************************)
\* Per-lane counter values: small, large enough that two of them exceed
\* 65535, the 16-bit ceiling itself, and beyond it.
SatCounts == {0, 1, 40000, UINT16_MAX, 70000}

SatLanes ==
    {[LaneZero EXCEPT !.bees_in = i, !.bees_out = o] : i \in SatCounts, o \in SatCounts}

SatMasks == {1, 2, 3, 15}

SatInit ==
    /\ s_lane_mask \in SatMasks
    /\ clock = Add32(T0, 45)
    /\ s_last_snapshot_ms = T0
    /\ \E l0 \in SatLanes, l1 \in SatLanes :
          s_lanes = [ch \in Channels |->
                       IF ch = 0 THEN l0 ELSE IF ch = 1 THEN l1 ELSE LaneZero]
    /\ pc = "main"
    /\ snap_now = U32(0)
    /\ snap = NoSnapshot
    /\ hist = [ch \in Channels |-> NoOp]
    /\ ticks = 0
    /\ s_mux = "free"
    /\ snap_loc = NoLocals
    /\ audit = NoAudit([ch \in Channels |-> LaneZero])
    /\ OtherInit

SpecSat == SatInit /\ [][NextSnap]_vars

(***************************************************************************)
(* SpecScenario: two transits through one lane, as test_multiple_transits  *)
(* drives them, followed by a snapshot: bee in (A then B), the cooldown    *)
(* ended by a timeout check, bee out (B then A).  Each operation comes     *)
(* after one of the waits listed for it; the first of each set gives the   *)
(* times 100, 120, 150, 200, 220 of the test.                              *)
(***************************************************************************)
Script ==
    << [op |-> "A",     wait |-> {0}],
       [op |-> "B",     wait |-> {20, MIN_TRANSIT_MS, MAX_TRANSIT_MS}],
       [op |-> "check", wait |-> {REFRACTORY_MS, REFRACTORY_MS + 1}],
       [op |-> "B",     wait |-> {50, 0}],
       [op |-> "A",     wait |-> {20, MIN_TRANSIT_MS, MAX_TRANSIT_MS}],
       [op |-> "snap",  wait |-> {0, 45}] >>

\* One lane is fitted, any of the four.
ScenarioMasks == {Pow2(ch) : ch \in Channels}

ScenarioInit ==
    /\ \E lane_mask \in ScenarioMasks : bee_counter_init(lane_mask, T0)
    /\ OtherInit

\* Operation k of the script has been applied.
Done(k) ==
    \/ k = 0
    \/ /\ k > 0
       /\ IF Script[k].op = "snap"
          THEN pc = "report"
          ELSE \E ch \in Channels :
                 /\ BitSet(s_lane_mask, ch)
                 /\ hist[ch].op = Script[k].op
                 /\ hist[ch].at = clock

\* the wait before the next operation of the script
ScenarioWait ==
    /\ ticks < Len(Script)
    /\ Done(ticks)
    /\ \E d \in Script[ticks + 1].wait : clock' = Add32(clock, d)
    /\ ticks' = ticks + 1
    /\ UNCHANGED other_vars
    /\ UNCHANGED <<s_lanes, s_lane_mask, s_last_snapshot_ms, pc, snap_now, snap, hist,
                   s_mux, snap_loc, audit>>

\* the operation the script is at
ScenarioOp ==
    /\ ticks > 0
    /\ ~Done(ticks)
    /\ \/ Script[ticks].op = "A" /\ \E ch \in Channels : IsrBeamA(ch)
       \/ Script[ticks].op = "B" /\ \E ch \in Channels : IsrBeamB(ch)
       \/ Script[ticks].op = "check" /\ \E ch \in Channels : CheckTimeout(ch)
       \/ Script[ticks].op = "snap" /\ (SnapshotBegin \/ SnapshotCritical)

NextScenario ==
    \/ ScenarioWait
    \/ ScenarioOp

SpecScenario == ScenarioInit /\ [][NextScenario]_vars

(***************************************************************************)
(* SpecLive: the lane state machine with the timeout check invoked again   *)
(* and again while time advances.  The clock runs for MaxLiveTicks steps   *)
(* of at least LiveStep >= REFRACTORY_MS each, so that LiveHorizon steps   *)
(* always exceed MAX_TRANSIT_MS.                                           *)
(***************************************************************************)
MaxLiveTicks == 4

LiveStep == MAX_TRANSIT_MS \div 2

LiveDeltas == {LiveStep, MAX_TRANSIT_MS + 1}

\* The number of clock steps after which MAX_TRANSIT_MS has surely passed
\* (REFRACTORY_MS has passed after one).
LiveHorizon == (MAX_TRANSIT_MS \div LiveStep) + 1

LiveTick ==
    /\ ticks < MaxLiveTicks
    /\ \E d \in LiveDeltas : clock' = Add32(clock, d)
    /\ ticks' = ticks + 1
    /\ UNCHANGED other_vars
    /\ UNCHANGED <<s_lanes, s_lane_mask, s_last_snapshot_ms, pc, snap_now, snap, hist,
                   s_mux, snap_loc, audit>>

NextLive ==
    \/ \E ch \in Channels : IsrBeamA(ch)
    \/ \E ch \in Channels : IsrBeamB(ch)
    \/ \E ch \in Channels : CheckTimeout(ch)
    \/ LiveTick

\* The timeout check of every enabled lane is invoked again and again, and
\* time advances.
SpecLive ==
    /\ FwInit
    /\ [][NextLive]_vars
    /\ WF_vars(LiveTick)
    /\ \A ch \in Channels : WF_vars(CheckTimeout(ch))

(***************************************************************************)
(* The bridge's COBS encoder, firmware/bridge/src/cobs.cpp                 *)
(*                                                                         *)
(* A byte sequence is a sequence of numbers in 0..255; index i of a C      *)
(* array is position i + 1 of the sequence.                                *)
(***************************************************************************)
\* A byte of the output buffer that cobs_encode has not stored to.
Unwritten == -1

\* buf[idx] = byte.  The output buffer is held as the sequence of its bytes
\* from index 0 to the highest index stored to so far.
Store(buf, idx, byte) ==
    IF idx < Len(buf) THEN [buf EXCEPT ![idx + 1] = byte]
    ELSE buf \o [k \in 1..(idx - Len(buf)) |-> Unwritten] \o <<byte>>

\* code == 0xFF, with the block closed one byte early first and never closed
\* second.
BlockFullEarly(code) == code = 254

BlockFullNever(code) == FALSE

BlockFull(code) == code = 255

\* need_final = (i + 1) < len, with the test left out first.
MoreDataAlways(i, len) == TRUE

MoreData(i, len) == (i + 1) < len

\* The locals of cobs_encode on entry to its loop.
CobsEntry ==
    [output |-> <<>>, write_idx |-> 1, code_idx |-> 0, code |-> 1, need_final |-> TRUE,
     i |-> 0]

\* One iteration of the loop of cobs_encode: its body for index i, and i++.
cobs_byte(st, in) ==
    IF in[st.i + 1] = 0
    THEN [output |-> Store(st.output, st.code_idx, st.code),
          code_idx |-> st.write_idx,
          write_idx |-> st.write_idx + 1,
          code |-> 1,
          need_final |-> TRUE,
          i |-> st.i + 1]
    ELSE LET stored == Store(st.output, st.write_idx, in[st.i + 1])
             code == (st.code + 1) % 256
         IN  IF BlockFull(code)
             THEN [output |-> Store(stored, st.code_idx, code),
                   code_idx |-> st.write_idx + 1,
                   write_idx |-> st.write_idx + 2,
                   code |-> 1,
                   need_final |-> MoreData(st.i, Len(in)),
                   i |-> st.i + 1]
             ELSE [st EXCEPT !.output = stored,
                             !.write_idx = st.write_idx + 1,
                             !.code = code,
                             !.i = st.i + 1]

\* The loop of cobs_encode, for at most n iterations: while (i < len).  The
\* iterations run in order, the first half of them before the second.
RECURSIVE cobs_loop(_, _, _)
cobs_loop(st, in, n) ==
    IF st.i >= Len(in) \/ n = 0 THEN st
    ELSE IF n = 1 THEN cobs_byte(st, in)
    ELSE cobs_loop(cobs_loop(st, in, n \div 2), in, n - (n \div 2))

\* cobs_encode whose final branch forgets to give back the reserved byte.
cobs_encode_no_reclaim(in) ==
    LET st == cobs_loop(CobsEntry, in, Len(in))
    IN  IF st.need_final
        THEN [len |-> st.write_idx, output |-> Store(st.output, st.code_idx, st.code)]
        ELSE [len |-> st.write_idx, output |-> st.output]

\* cobs_encode(input, len, output): the length returned and the buffer left.
cobs_encode(in) ==
    LET st == cobs_loop(CobsEntry, in, Len(in))
    IN  IF st.need_final
        THEN [len |-> st.write_idx, output |-> Store(st.output, st.code_idx, st.code)]
        ELSE [len |-> st.write_idx - 1, output |-> st.output]

(***************************************************************************)
(* SpecCobs: cobs_encode applied to one input.                             *)
(***************************************************************************)
\* n non-zero bytes, no two neighbours equal.
Run(n) == [k \in 1..n |-> 1 + (k % 255)]

Zeros(n) == [k \in 1..n |-> 0]

\* The byte sequences of length at most n over the byte values in S.
RECURSIVE SeqsUpTo(_, _)
SeqsUpTo(S, n) ==
    IF n = 0 THEN {<<>>}
    ELSE LET shorter == SeqsUpTo(S, n - 1)
         IN  shorter \cup {Append(s, b) : s \in shorter, b \in S}

\* Run lengths around the largest block of 254 data bytes.
RunLengths == {0, 1, 253, 254, 255, 256, 508, 509}

\* Inputs built around a long run of non-zero bytes.
StuffedInputs ==
    {pre \o Run(n) \o post :
        pre \in SeqsUpTo({0, 7}, 1), n \in RunLengths, post \in SeqsUpTo({0, 255}, 2)}

\* The payload (32, 48) and frame (38, 54) sizes of the bridge.
FrameSizes == {32, 38, 48, 54}

\* Payloads and frames: all zero, no zero, and zeros at either end and in
\* pairs inside.
FrameInputs ==
    UNION {{Zeros(n), Run(n),
            <<0>> \o Run(n - 2) \o <<0>>,
            Run(4) \o Zeros(2) \o Run(n - 8) \o Zeros(2),
            [k \in 1..n |-> IF k % 3 = 0 THEN 0 ELSE k]} : n \in FrameSizes}

CobsInputs == SeqsUpTo({0, 1, 255}, 3) \cup StuffedInputs \cup FrameInputs

\* The call cobs_encode(in, Len(in), output) about to be made.
CobsInit ==
    /\ CounterAbsent
    /\ BridgeInit
    /\ CommsInit
    /\ NodeInit
    /\ input \in {[fn |-> "cobs_encode", data |-> in] : in \in CobsInputs}
    /\ output = NotCalled

CobsEncode ==
    /\ input.fn = "cobs_encode"
    /\ output = NotCalled
    /\ output' = cobs_encode(input.data)
    /\ UNCHANGED <<counter_vars, input, bridge_vars, comms_vars, node_vars>>

NextCobs == CobsEncode

SpecCobs == CobsInit /\ [][NextCobs]_vars

(***************************************************************************)
(* The bridge, firmware/bridge/src/main.cpp: every ESP-NOW packet received *)
(* is framed with the sender's MAC, COBS-encoded and written to Serial.    *)
(***************************************************************************)
MAC_LEN == 6
PAYLOAD_LEN_P1 == 32
PAYLOAD_LEN_P2 == 48
MAX_DECODED_SIZE == 64
COBS_MAX_OUTPUT == 70
FRAME_DELIMITER == 0

\* How many packets the bridge receives in one behaviour.
MaxPackets == 2

\* Sender addresses: with zero bytes, without, and all zero.
Macs == {<<36, 111, 40, 0, 0, 1>>, <<255, 255, 255, 255, 255, 255>>, Zeros(MAC_LEN)}

\* Packet lengths: the two the bridge accepts, their neighbours, the empty
\* packet and the longest ESP-NOW packet.
PacketLengths == {0, 31, 32, 33, 47, 48, 49, 250}

\* Packet contents of length n: all zero, no zero, every third byte zero.
PacketData(n) == {Zeros(n), Run(n), [k \in 1..n |-> IF k % 3 = 0 THEN 0 ELSE k]}

Packets ==
    {[mac |-> mac, data |-> data] :
        mac \in Macs, data \in UNION {PacketData(n) : n \in PacketLengths}}

\* data_len != PAYLOAD_LEN_P1 && data_len != PAYLOAD_LEN_P2; before it, with
\* the second size forgotten, and with only short packets refused.
BadLengthP1Only(data_len) == data_len # PAYLOAD_LEN_P1

BadLengthShort(data_len) == data_len < PAYLOAD_LEN_P1

BadLength(data_len) == data_len # PAYLOAD_LEN_P1 /\ data_len # PAYLOAD_LEN_P2

\* Serial.write(encoded, encoded_len); Serial.write(FRAME_DELIMITER), and
\* with the delimiter written on both sides of the frame.
SerialWriteBothEnds(encoded) ==
    <<FRAME_DELIMITER>> \o SubSeq(encoded.output, 1, encoded.len) \o <<FRAME_DELIMITER>>

SerialWrite(encoded) == SubSeq(encoded.output, 1, encoded.len) \o <<FRAME_DELIMITER>>

\* The frame on_data_recv builds: [6-byte MAC][payload]
Frame(mac, data) == mac \o data

on_data_recv(mac, data) ==
    /\ Len(rx) < MaxPackets
    /\ rx' = Append(rx, [mac |-> mac, data |-> data])
    /\ IF BadLength(Len(data))
       THEN /\ err_bad_len' = err_bad_len + 1
            /\ UNCHANGED <<serial, led_state>>
       ELSE /\ serial' = serial \o SerialWrite(cobs_encode(Frame(mac, data)))
            /\ led_state' = ~led_state
            /\ UNCHANGED err_bad_len
    /\ UNCHANGED <<counter_vars, call_vars, comms_vars, node_vars>>

BridgeStart ==
    /\ CounterAbsent
    /\ NoCall
    /\ BridgeInit
    /\ CommsInit
    /\ NodeInit

NextBridge == \E pkt \in Packets : on_data_recv(pkt.mac, pkt.data)

SpecBridge == BridgeStart /\ [][NextBridge]_vars

(***************************************************************************)
(* The sensor node's payload, firmware/sensor/src/payload.h: crc8 and the  *)
(* payload builders.                                                       *)
(***************************************************************************)
\* a ^ b on the low n bits
RECURSIVE XorBits(_, _, _)
XorBits(a, b, n) ==
    IF n = 0 THEN 0
    ELSE ((a + b) % 2) + 2 * XorBits(a \div 2, b \div 2, n - 1)

\* a ^ b on uint8_t
Xor8(a, b) == XorBits(a, b, 8)

\* One step of the bit loop of crc8, with the reflected (LSB-first) form of
\* the same polynomial first.
crc8_bit_reflected(crc) ==
    IF crc % 2 = 1 THEN Xor8(crc \div 2, 224) ELSE crc \div 2

\* if (crc & 0x80) crc = (crc << 1) ^ 0x07; else crc = crc << 1;
crc8_bit(crc) ==
    IF crc \div 128 = 1 THEN Xor8((crc * 2) % 256, 7) ELSE (crc * 2) % 256

\* for (uint8_t j = 0; j < 8; j++): the steps from j to 7
RECURSIVE crc8_bits(_, _)
crc8_bits(crc, j) == IF j >= 8 THEN crc ELSE crc8_bits(crc8_bit(crc), j + 1)

\* for (size_t i = 0; i < len; i++): the loop from st.i on
RECURSIVE crc8_loop(_, _, _)
crc8_loop(st, data, len) ==
    IF st.i >= len THEN st
    ELSE crc8_loop([crc |-> crc8_bits(Xor8(st.crc, data[st.i + 1]), 0), i |-> st.i + 1],
                   data, len)

\* crc8(data, len)
crc8(data, len) == crc8_loop([crc |-> 0, i |-> 0], data, len).crc

(***************************************************************************)
(* SpecCrc: crc8 applied to one byte sequence.                             *)
(***************************************************************************)
\* "123456789"
CheckString == <<49, 50, 51, 52, 53, 54, 55, 56, 57>>

\* The vectors of test_payload.cpp, every single byte, and every pair of
\* bytes drawn from {0x00, 0x01, 0x80, 0xFF}.
CrcInputs ==
    {CheckString, <<>>, <<255, 255, 255, 255>>}
       \cup {<<b>> : b \in 0..255}
       \cup {<<a, b>> : a, b \in {0, 1, 128, 255}}

CrcInit ==
    /\ CounterAbsent
    /\ BridgeInit
    /\ CommsInit
    /\ NodeInit
    /\ input \in {[fn |-> "crc8", data |-> data] : data \in CrcInputs}
    /\ output = NotCalled

Crc8 ==
    /\ input.fn = "crc8"
    /\ output = NotCalled
    /\ output' = [crc |-> crc8(input.data, Len(input.data))]
    /\ UNCHANGED <<counter_vars, input, bridge_vars, comms_vars, node_vars>>

NextCrc == Crc8

SpecCrc == CrcInit /\ [][NextCrc]_vars

(***************************************************************************)
(* payload_build and payload_build_v2.  A payload struct is held as the    *)
(* sequence of its bytes: the structs are packed, and the ESP32 stores an  *)
(* integer with its least significant byte first.                          *)
(***************************************************************************)
MSG_TYPE_SENSOR == 1
MSG_TYPE_BEE_COUNT == 2
PAYLOAD_SIZE == 32
PAYLOAD_SIZE_V2 == 48

\* The number of bytes the crc field is computed over: crc8(p, 17)
CRC_COVER == 17

\* memset(p, 0, size)
Memset0(size) == [k \in 1..size |-> 0]

\* A field of `size` bytes at offset `off` assigned the integer v, most
\* significant byte first: the byte order the target does not have.
StoreBE(p, off, size, v) ==
    [k \in 1..Len(p) |->
        IF k - 1 >= off /\ k - 1 < off + size
        THEN (v \div Pow2(8 * (off + size - k))) % 256
        ELSE p[k]]

\* A field of `size` bytes at offset `off` assigned the integer v (two's
\* complement when v is negative), least significant byte first.
StoreLE(p, off, size, v) ==
    [k \in 1..Len(p) |->
        IF k - 1 >= off /\ k - 1 < off + size
        THEN (v \div Pow2(8 * (k - 1 - off))) % 256
        ELSE p[k]]

\* A uint32_t field assigned v = [hi, lo]
StoreU32(p, off, v) == StoreLE(StoreLE(p, off, 2, v.lo), off + 2, 2, v.hi)

\* The assignments both builders make to the fields at offsets 0 .. 16.
StoreCore(p, msg_type, a) ==
    LET p0 == StoreLE(p, 0, 1, a.hive_id)
        p1 == StoreLE(p0, 1, 1, msg_type)
        p2 == StoreLE(p1, 2, 2, a.sequence)
        p4 == StoreLE(p2, 4, 4, a.weight_g)
        p8 == StoreLE(p4, 8, 2, a.temp_c_x100)
        p10 == StoreLE(p8, 10, 2, a.humidity_x100)
        p12 == StoreLE(p10, 12, 2, a.pressure_hpa_x10)
        p14 == StoreLE(p12, 14, 2, a.battery_mv)
    IN  StoreLE(p14, 16, 1, a.flags)

\* The assignments payload_build_v2 makes to the bee counting fields.
StoreBees(p, a) ==
    LET p18 == StoreLE(p, 18, 2, a.bees_in)
        p20 == StoreLE(p18, 20, 2, a.bees_out)
        p22 == StoreU32(p20, 22, a.period_ms)
        p26 == StoreLE(p22, 26, 1, a.lane_mask)
    IN  StoreLE(p26, 27, 1, a.stuck_mask)

\* p->crc = crc8((const uint8_t*)p, 17)
StoreCrc(p) == StoreLE(p, 17, 1, crc8(p, CRC_COVER))

payload_build(a) == StoreCrc(StoreCore(Memset0(PAYLOAD_SIZE), MSG_TYPE_SENSOR, a))

\* payload_build_v2 with the checksum computed last and over the bee
\* counting fields too.
payload_build_v2_crc_last(a) ==
    LET p == StoreBees(StoreCore(Memset0(PAYLOAD_SIZE_V2), MSG_TYPE_BEE_COUNT, a), a)
    IN  StoreLE(p, 17, 1, crc8(p, 28))

payload_build_v2(a) ==
    StoreBees(StoreCrc(StoreCore(Memset0(PAYLOAD_SIZE_V2), MSG_TYPE_BEE_COUNT, a)), a)

(***************************************************************************)
(* SpecPayload: one of the two builders applied to one tuple of arguments. *)
(***************************************************************************)
\* Arguments of both builders: the values of the unit tests and the ends of
\* each type's range.
CoreArgs ==
    [hive_id : {1, 170},
     sequence : {1000, 65535},
     weight_g : {-2147483647, -500, 5000},
     temp_c_x100 : {-1000, 2500},
     humidity_x100 : {6000},
     pressure_hpa_x10 : {10130},
     battery_mv : {3800},
     flags : {0, 41, 255}]

\* The bee counting arguments of payload_build_v2; 0xDEADBEEF is
\* [hi |-> 57005, lo |-> 48879].
BeeArgs ==
    [bees_in : {0, 4660, 65535},
     bees_out : {0, 22136},
     period_ms : {U32(0), [hi |-> 57005, lo |-> 48879], [hi |-> 65535, lo |-> 65535]},
     lane_mask : {15},
     stuck_mask : {0, 3}]

\* The record with the fields of both a and b.
Both(a, b) == [f \in DOMAIN a \cup DOMAIN b |-> IF f \in DOMAIN a THEN a[f] ELSE b[f]]

PayloadInit ==
    /\ CounterAbsent
    /\ BridgeInit
    /\ CommsInit
    /\ NodeInit
    /\ \/ input \in {[fn |-> "payload_build", args |-> a] : a \in CoreArgs}
       \/ input \in {[fn |-> "payload_build_v2", args |-> Both(a, b)] :
                       a \in CoreArgs, b \in BeeArgs}
    /\ output = NotCalled

PayloadBuild ==
    /\ input.fn = "payload_build"
    /\ output = NotCalled
    /\ output' = [p |-> payload_build(input.args)]
    /\ UNCHANGED <<counter_vars, input, bridge_vars, comms_vars, node_vars>>

PayloadBuildV2 ==
    /\ input.fn = "payload_build_v2"
    /\ output = NotCalled
    /\ output' = [p |-> payload_build_v2(input.args)]
    /\ UNCHANGED <<counter_vars, input, bridge_vars, comms_vars, node_vars>>

NextPayload ==
    \/ PayloadBuild
    \/ PayloadBuildV2

SpecPayload == PayloadInit /\ [][NextPayload]_vars

(***************************************************************************)
(* The collection cycle of the sensor node: loop() of main.cpp from the    *)
(* sensor readings to the payload (setup() does the same on first boot).   *)
(***************************************************************************)

FLAG_FIRST_BOOT == 1
FLAG_MEASUREMENT_CLAMPED == 2
FLAG_COUNTER_STUCK == 4
FLAG_LOW_BATTERY == 8
FLAG_HX711_ERROR == 32
FLAG_BME280_ERROR == 64
LOW_BATTERY_MV == 3300

\* flags |= bit, for a mask of one bit
SetFlag(flags, bit) == IF (flags \div bit) % 2 = 1 THEN flags ELSE flags + bit

\* What sensors_init and the read_* functions give in one wake: the
\* readings and the error bits they have set, and whether this is the first
\* boot.  sensors.cpp sets no other bit than the two error bits.
Readings ==
    [hive_id : {1},
     weight_g : {5000},
     temp_c_x100 : {2500},
     humidity_x100 : {6000},
     pressure_hpa_x10 : {10130},
     battery_mv : {3000, 3800},
     flags : {0, FLAG_HX711_ERROR + FLAG_BME280_ERROR},
     first_boot : BOOLEAN]

\* The flags byte as loop() derives it from the readings and the snapshot.
loop_flags(r, bee_snap) ==
    LET f1 == IF r.first_boot THEN SetFlag(r.flags, FLAG_FIRST_BOOT) ELSE r.flags
        f2 == IF r.battery_mv < LOW_BATTERY_MV THEN SetFlag(f1, FLAG_LOW_BATTERY) ELSE f1
        f3 == IF bee_snap.bees_in = 65535 \/ bee_snap.bees_out = 65535
              THEN SetFlag(f2, FLAG_MEASUREMENT_CLAMPED) ELSE f2
    IN  IF bee_snap.stuck_mask # 0 THEN SetFlag(f3, FLAG_COUNTER_STUCK) ELSE f3

\* The arguments setup() and loop() pass to payload_build_v2.
loop_args(r, bee_snap) ==
    [hive_id |-> r.hive_id, sequence |-> s_sequence, weight_g |-> r.weight_g,
     temp_c_x100 |-> r.temp_c_x100, humidity_x100 |-> r.humidity_x100,
     pressure_hpa_x10 |-> r.pressure_hpa_x10, battery_mv |-> r.battery_mv,
     flags |-> loop_flags(r, bee_snap),
     bees_in |-> bee_snap.bees_in, bees_out |-> bee_snap.bees_out,
     period_ms |-> bee_snap.period_ms, lane_mask |-> bee_snap.lane_mask,
     stuck_mask |-> bee_snap.stuck_mask]

DEFAULT_LANE_MASK == 15
WAKE_INTERVAL_SEC == 60
MaxWakes == 4

\* What the transmission of a wake can come to: comms_send true, comms_send
\* false, or comms_init false and no transmission.
SendOutcomes == {"delivered", "failed", "skipped"}

\* s_sequence++ on a uint16_t, after a transmission that came to `sent`.
\* Before it, an increment for delivered payloads only, and one that does
\* not wrap.
SequenceAfterDelivery(seq, sent) == IF sent = "delivered" THEN (seq + 1) % 65536 ELSE seq

SequenceAfterNoWrap(seq, sent) == seq + 1

SequenceAfter(seq, sent) == (seq + 1) % 65536

\* enter_light_sleep right after the configuration check: a wake of an
\* unconfigured node changes nothing but the time.
WakeUnconfigured ==
    /\ clock' = Add32(clock, WAKE_INTERVAL_SEC * 1000)
    /\ cycles' = [cycles EXCEPT !.where = "loop", !.wakes = @ + 1, !.last = "unconfigured"]
    /\ UNCHANGED <<s_lanes, s_lane_mask, s_last_snapshot_ms, pc, snap_now, snap, hist,
                   ticks, s_mux, snap_loc, audit, call_vars, bridge_vars, comms_vars,
                   s_sequence>>

\* A wake of a configured node, in setup() (fn = "setup", which initialises
\* the bee counter) or in loop() (which does if it is not yet): the
\* readings r, the snapshot of the counter taken at the present time (no
\* interrupt handler runs in these specifications, so the snapshot is one
\* step with the reading of the clock), the flags, the payload, its
\* transmission, s_sequence++ and the sleep.  snap keeps the snapshot the
\* cycle has used, input its readings, output the payload built.
WakeConfigured(fn, r, sent) ==
    LET init == fn = "setup" \/ ~cycles.ready
        lanes == IF init THEN [ch \in Channels |-> LaneZero] ELSE s_lanes
        mask == IF init THEN DEFAULT_LANE_MASK ELSE s_lane_mask
        last_ms == IF init THEN clock ELSE s_last_snapshot_ms
        bee_snap == bee_counter_snapshot(lanes, mask, last_ms, clock)
    IN  /\ snap' = bee_snap
        /\ audit' = Reported(audit, bee_snap)
        /\ input' = [fn |-> fn, args |-> r]
        /\ output' = [p |-> payload_build_v2(loop_args(r, bee_snap))]
        /\ s_lanes' = [ch \in Channels |->
                         IF BitSet(mask, ch) THEN SnapLane(lanes[ch], clock)
                         ELSE lanes[ch]]
        /\ hist' = [ch \in Channels |->
                      IF BitSet(mask, ch)
                      THEN Did("snap", clock, lanes[ch], s_lanes'[ch])
                      ELSE hist[ch]]
        /\ s_lane_mask' = mask
        /\ s_last_snapshot_ms' = clock
        /\ s_sequence' = SequenceAfter(s_sequence, sent)
        /\ clock' = Add32(clock, WAKE_INTERVAL_SEC * 1000)
        /\ cycles' = [cycles EXCEPT !.where = "loop", !.ready = TRUE, !.wakes = @ + 1,
                                    !.configured = @ + 1, !.last = sent]
        /\ UNCHANGED <<pc, snap_now, ticks, s_mux, snap_loc, bridge_vars, comms_vars>>

\* void setup(): the first wake after power-on
setup(configured, r, sent) ==
    /\ pc = "main"
    /\ cycles.where = "setup"
    /\ cycles.wakes < MaxWakes
    /\ IF configured THEN WakeConfigured("setup", r, sent) ELSE WakeUnconfigured

\* void loop(): every later wake
loop(configured, r, sent) ==
    /\ pc = "main"
    /\ cycles.where = "loop"
    /\ cycles.wakes < MaxWakes
    /\ IF configured THEN WakeConfigured("loop", r, sent) ELSE WakeUnconfigured

\* The node in loop() after k configured cycles: its sequence counter is
\* what k increments of a uint16_t have left of it.
NodeRunning(k) ==
    /\ s_sequence = k % 65536
    /\ cycles = [where |-> "loop", ready |-> TRUE, wakes |-> 0, configured |-> k,
                 last |-> "none"]

CycleMasks == {1, 3, 7}

\* The counter when the node wakes for its last wake but one of MaxWakes:
\* lanes 0 and 1 with the counts of SatCounts, lane 2 idle or flagged stuck.
CycleInit ==
    /\ s_lane_mask \in CycleMasks
    /\ clock = Add32(T0, 2046)
    /\ s_last_snapshot_ms = T0
    /\ \E l0 \in SatLanes, l1 \in SatLanes, l2 \in {LaneZero, LaneStuck} :
          s_lanes = [ch \in Channels |->
                       IF ch = 0 THEN l0 ELSE IF ch = 1 THEN l1
                       ELSE IF ch = 2 THEN l2 ELSE LaneZero]
    /\ pc = "main"
    /\ snap_now = U32(0)
    /\ snap = NoSnapshot
    /\ hist = [ch \in Channels |-> NoOp]
    /\ ticks = 0
    /\ s_mux = "free"
    /\ snap_loc = NoLocals
    /\ audit = NoAudit([ch \in Channels |-> LaneZero])
    /\ input = [fn |-> "wake"]
    /\ output = NotCalled
    /\ BridgeInit
    /\ CommsInit
    /\ s_sequence = 1000
    /\ cycles = [where |-> "loop", ready |-> TRUE, wakes |-> MaxWakes - 1,
                 configured |-> 1000, last |-> "none"]

NextCycle == \E r \in Readings : loop(TRUE, r, "delivered")

SpecCycle == CycleInit /\ [][NextCycle]_vars

(***************************************************************************)
(* The sensor node from power-on, or from its k-th configured cycle, over  *)
(* MaxWakes wakes: setup(), then loop() after every sleep.                 *)
(***************************************************************************)

\* Configured cycles behind the node when it is first looked at: none
\* (power-on), and just before the first and the second wrap of s_sequence.
StartCycles == {65534, 131070}

NodeReadings == {r \in Readings : r.flags = 0 /\ ~r.first_boot}

NodeStart ==
    /\ CounterAbsent
    /\ NoCall
    /\ BridgeInit
    /\ CommsInit
    /\ NodeInit

NodeStartRunning ==
    /\ bee_counter_init(DEFAULT_LANE_MASK, T0)
    /\ NoCall
    /\ BridgeInit
    /\ CommsInit
    /\ \E k \in StartCycles : NodeRunning(k)

NextNode ==
    \/ \E configured \in BOOLEAN, r \in NodeReadings, sent \in SendOutcomes :
          setup(configured, r, sent)
    \/ \E configured \in BOOLEAN, r \in NodeReadings, sent \in SendOutcomes :
          loop(configured, r, sent)

SpecNode == (NodeStart \/ NodeStartRunning) /\ [][NextNode]_vars

(***************************************************************************)
(* comms_send of the sensor node (comms.cpp) against the delivery callback *)
(* on_data_sent, which the radio's task runs while comms_send waits.       *)
(*                                                                         *)
(* tx.pc is the statement comms_send is at: "for" the loop test of line    *)
(* 62, "reset_done" and "reset_success" lines 63 and 64, "send" line 66,   *)
(* "wait" the loop of lines 76-78, "check" line 80, "delay" the retry      *)
(* delays of lines 70 and 87, "done" after the return.  tx.pending holds   *)
(* the sends the radio has accepted and not yet reported, tx.cb the status *)
(* a running callback has still to store.  tx.sends counts the calls of    *)
(* esp_now_send in this call, tx.acked says that a callback with status    *)
(* SUCCESS has been invoked for a send of this call, tx.reported that a    *)
(* callback has stored send_success = true during this call.               *)
(***************************************************************************)

ESPNOW_MAX_RETRIES == 3
SEND_WAIT_MS == 500
MaxCalls == 1

InCall == tx.pc \notin {"idle", "done"}

\* bool comms_send(data, len): entry, attempt = 1
comms_send_enter ==
    /\ ~InCall
    /\ tx.calls < MaxCalls
    /\ tx' = [tx EXCEPT !.pc = "for", !.calls = @ + 1, !.attempt = 1, !.waited = 0,
                        !.sends = 0, !.acked = FALSE, !.reported = FALSE,
                        !.result = "none"]
    /\ UNCHANGED <<send_done, send_success>>
    /\ UNCHANGED <<counter_vars, call_vars, bridge_vars, node_vars>>

\* for (...; attempt <= ESPNOW_MAX_RETRIES; ...), and return false after it.
\* Before it, a loop that never gives up.
comms_send_for_unbounded ==
    /\ tx.pc = "for"
    /\ tx' = [tx EXCEPT !.pc = "reset_done"]
    /\ UNCHANGED <<send_done, send_success>>
    /\ UNCHANGED <<counter_vars, call_vars, bridge_vars, node_vars>>

comms_send_for ==
    /\ tx.pc = "for"
    /\ tx' = IF tx.attempt <= ESPNOW_MAX_RETRIES
             THEN [tx EXCEPT !.pc = "reset_done"]
             ELSE [tx EXCEPT !.pc = "done", !.result = "false"]
    /\ UNCHANGED <<send_done, send_success>>
    /\ UNCHANGED <<counter_vars, call_vars, bridge_vars, node_vars>>

\* send_done = false
comms_send_reset_done ==
    /\ tx.pc = "reset_done"
    /\ send_done' = FALSE
    /\ tx' = [tx EXCEPT !.pc = "reset_success"]
    /\ UNCHANGED send_success
    /\ UNCHANGED <<counter_vars, call_vars, bridge_vars, node_vars>>

\* send_success = false
comms_send_reset_success ==
    /\ tx.pc = "reset_success"
    /\ send_success' = FALSE
    /\ tx' = [tx EXCEPT !.pc = "send"]
    /\ UNCHANGED send_done
    /\ UNCHANGED <<counter_vars, call_vars, bridge_vars, node_vars>>

\* err = esp_now_send(...): the radio takes the packet (and will report its
\* delivery) or refuses it; t0 = millis()
comms_send_send(ok) ==
    /\ tx.pc = "send"
    /\ tx' = IF ok
             THEN [tx EXCEPT !.pc = "wait", !.waited = 0, !.sends = @ + 1,
                             !.pending = Append(@, [call |-> tx.calls,
                                                    attempt |-> tx.attempt])]
             ELSE [tx EXCEPT !.pc = "delay", !.sends = @ + 1]
    /\ UNCHANGED <<send_done, send_success>>
    /\ UNCHANGED <<counter_vars, call_vars, bridge_vars, node_vars>>

\* while (!send_done && (millis() - t0 < 500)) delay(1); every delay(1) is
\* one millisecond of the clock
comms_send_wait ==
    /\ tx.pc = "wait"
    /\ tx' = IF ~send_done /\ tx.waited < SEND_WAIT_MS
             THEN [tx EXCEPT !.waited = @ + 1]
             ELSE [tx EXCEPT !.pc = "check"]
    /\ UNCHANGED <<send_done, send_success>>
    /\ UNCHANGED <<counter_vars, call_vars, bridge_vars, node_vars>>

\* if (send_success) return true; otherwise the retry delay, which the last
\* attempt skips
comms_send_check ==
    /\ tx.pc = "check"
    /\ tx' = IF send_success
             THEN [tx EXCEPT !.pc = "done", !.result = "true"]
             ELSE IF tx.attempt < ESPNOW_MAX_RETRIES
                  THEN [tx EXCEPT !.pc = "delay"]
                  ELSE [tx EXCEPT !.pc = "for", !.attempt = @ + 1]
    /\ UNCHANGED <<send_done, send_success>>
    /\ UNCHANGED <<counter_vars, call_vars, bridge_vars, node_vars>>

\* delay(ESPNOW_RETRY_MS); attempt++
comms_send_delay ==
    /\ tx.pc = "delay"
    /\ tx' = [tx EXCEPT !.pc = "for", !.attempt = @ + 1]
    /\ UNCHANGED <<send_done, send_success>>
    /\ UNCHANGED <<counter_vars, call_vars, bridge_vars, node_vars>>

\* on_data_sent(mac, status), first statement: send_done = true.  The
\* callback runs in the radio's task, so comms_send can run between its two
\* statements.
on_data_sent_done(success) ==
    /\ tx.cb = "none"
    /\ tx.pending # <<>>
    /\ send_done' = TRUE
    /\ tx' = [tx EXCEPT !.pending = Tail(@),
                        !.cb = IF success THEN "success" ELSE "fail",
                        !.acked = @ \/ (success /\ InCall
                                          /\ Head(tx.pending).call = tx.calls)]
    /\ UNCHANGED send_success
    /\ UNCHANGED <<counter_vars, call_vars, bridge_vars, node_vars>>

\* on_data_sent, second statement: send_success = (status == SUCCESS)
on_data_sent_success ==
    /\ tx.cb # "none"
    /\ send_success' = (tx.cb = "success")
    /\ tx' = [tx EXCEPT !.cb = "none",
                        !.reported = @ \/ (tx.cb = "success" /\ InCall)]
    /\ UNCHANGED send_done
    /\ UNCHANGED <<counter_vars, call_vars, bridge_vars, node_vars>>

CommsStart ==
    /\ CounterAbsent
    /\ NoCall
    /\ BridgeInit
    /\ CommsInit
    /\ NodeInit

NextComms ==
    \/ comms_send_enter
    \/ comms_send_for
    \/ comms_send_reset_done
    \/ comms_send_reset_success
    \/ \E ok \in BOOLEAN : comms_send_send(ok)
    \/ comms_send_wait
    \/ comms_send_check
    \/ comms_send_delay
    \/ \E success \in BOOLEAN : on_data_sent_done(success)
    \/ on_data_sent_success

SpecComms == CommsStart /\ [][NextComms]_vars

(***************************************************************************)
(* Properties                                                              *)
(***************************************************************************)
\* This step applies operation `name` to lane ch (with now_ms = clock).
StepOn(ch, name) ==
    /\ hist'[ch].op = name
    /\ hist'[ch] # hist[ch] \/ s_lanes'[ch] # s_lanes[ch]

\* This step is an edge on the named beam of lane ch that passes the
\* debounce test.
Accepted(ch, name) == StepOn(ch, name) /\ hist'[ch].acc

\* d is within [MIN_TRANSIT, MAX_TRANSIT], both inclusive
ValidTransit(d) == d.hi = 0 /\ d.lo >= MIN_TRANSIT_MS /\ d.lo <= MAX_TRANSIT_MS

Waiting == {LANE_A_BROKEN, LANE_B_BROKEN}

SameCounts(ch) ==
    /\ s_lanes'[ch].bees_in = s_lanes[ch].bees_in
    /\ s_lanes'[ch].bees_out = s_lanes[ch].bees_out

\* Every operation on a lane is recorded: a lane changes only in a step that
\* records its operation.
HistorySound ==
    [][\A ch \in Channels : hist'[ch] = hist[ch] => s_lanes'[ch] = s_lanes[ch]]_vars

\* C1: a lane in IDLE whose accepted A edge at time a is followed by an
\* accepted B edge at time b, b - a within [MIN_TRANSIT, MAX_TRANSIT], is in
\* COOLDOWN with count_in one higher and count_out unchanged; B then A
\* likewise raises count_out by one and leaves count_in.
C1_DirectionAttribution ==
    [][\A ch \in Channels :
        /\ ( /\ hist[ch].op = "A" /\ hist[ch].acc /\ hist[ch].pre = LANE_IDLE
             /\ Accepted(ch, "B")
             /\ ValidTransit(Sub32(clock, hist[ch].at)) )
           => /\ s_lanes'[ch].state = LANE_COOLDOWN
              /\ s_lanes'[ch].bees_in = s_lanes[ch].bees_in + 1
              /\ s_lanes'[ch].bees_out = s_lanes[ch].bees_out
        /\ ( /\ hist[ch].op = "B" /\ hist[ch].acc /\ hist[ch].pre = LANE_IDLE
             /\ Accepted(ch, "A")
             /\ ValidTransit(Sub32(clock, hist[ch].at)) )
           => /\ s_lanes'[ch].state = LANE_COOLDOWN
              /\ s_lanes'[ch].bees_out = s_lanes[ch].bees_out + 1
              /\ s_lanes'[ch].bees_in = s_lanes[ch].bees_in
    ]_vars

\* A lane that has just counted a bee in: an accepted B edge completed the
\* transit an A edge began.
C1_Witness ==
    \E ch \in Channels :
        /\ hist[ch].op = "B" /\ hist[ch].acc /\ hist[ch].pre = LANE_A_BROKEN
        /\ s_lanes[ch].state = LANE_COOLDOWN
        /\ s_lanes[ch].bees_in = 1 /\ s_lanes[ch].bees_out = 0
        /\ ValidTransit(Sub32(hist[ch].at, s_lanes[ch].last_edge_a_ms))

\* C2 as the component design states it: an accepted A edge on a lane in
\* B_BROKEN moves it to COOLDOWN and increments count_in iff the transit time
\* is within the window; an accepted B edge on a lane in A_BROKEN increments
\* count_out iff it is.
C2_AsStated ==
    [][\A ch \in Channels :
        /\ (Accepted(ch, "A") /\ s_lanes[ch].state = LANE_B_BROKEN)
           => /\ s_lanes'[ch].state = LANE_COOLDOWN
              /\ s_lanes'[ch].bees_in =
                    s_lanes[ch].bees_in +
                    (IF ValidTransit(Sub32(clock, s_lanes[ch].state_enter_ms)) THEN 1 ELSE 0)
        /\ (Accepted(ch, "B") /\ s_lanes[ch].state = LANE_A_BROKEN)
           => /\ s_lanes'[ch].state = LANE_COOLDOWN
              /\ s_lanes'[ch].bees_out =
                    s_lanes[ch].bees_out +
                    (IF ValidTransit(Sub32(clock, s_lanes[ch].state_enter_ms)) THEN 1 ELSE 0)
    ]_vars

\* C2 amended: an accepted A edge on a lane in B_BROKEN moves it to COOLDOWN
\* and increments count_out (not count_in) iff now - state_entered_at is
\* within the window, leaving count_in; an accepted B edge on a lane in
\* A_BROKEN moves it to COOLDOWN and increments count_in (not count_out) iff
\* it is, leaving count_out.
C2_Attribution ==
    [][\A ch \in Channels :
        /\ (Accepted(ch, "A") /\ s_lanes[ch].state = LANE_B_BROKEN)
           => /\ s_lanes'[ch].state = LANE_COOLDOWN
              /\ s_lanes'[ch].bees_out =
                    s_lanes[ch].bees_out +
                    (IF ValidTransit(Sub32(clock, s_lanes[ch].state_enter_ms)) THEN 1 ELSE 0)
              /\ s_lanes'[ch].bees_in = s_lanes[ch].bees_in
        /\ (Accepted(ch, "B") /\ s_lanes[ch].state = LANE_A_BROKEN)
           => /\ s_lanes'[ch].state = LANE_COOLDOWN
              /\ s_lanes'[ch].bees_in =
                    s_lanes[ch].bees_in +
                    (IF ValidTransit(Sub32(clock, s_lanes[ch].state_enter_ms)) THEN 1 ELSE 0)
              /\ s_lanes'[ch].bees_out = s_lanes[ch].bees_out
    ]_vars

\* A lane that has just counted a bee out on an A edge received in B_BROKEN.
C2_Witness ==
    \E ch \in Channels :
        /\ hist[ch].op = "A" /\ hist[ch].acc /\ hist[ch].pre = LANE_B_BROKEN
        /\ s_lanes[ch].state = LANE_COOLDOWN
        /\ s_lanes[ch].bees_out = 1 /\ s_lanes[ch].bees_in = 0

\* C3: a completing edge whose transit time is below MIN_TRANSIT or above
\* MAX_TRANSIT moves the lane to COOLDOWN, records the entry time and leaves
\* both counters as they were.
C3_InvalidTransitDiscarded ==
    [][\A ch \in Channels :
        ( /\ \/ Accepted(ch, "B") /\ s_lanes[ch].state = LANE_A_BROKEN
             \/ Accepted(ch, "A") /\ s_lanes[ch].state = LANE_B_BROKEN
          /\ ~ValidTransit(Sub32(clock, s_lanes[ch].state_enter_ms)) )
        => /\ s_lanes'[ch].state = LANE_COOLDOWN
           /\ s_lanes'[ch].state_enter_ms = clock
           /\ SameCounts(ch)
    ]_vars

\* A lane put in COOLDOWN by a B edge more than MAX_TRANSIT after its A
\* edge, with nothing counted.
C3_Witness ==
    \E ch \in Channels :
        /\ hist[ch].op = "B" /\ hist[ch].acc /\ hist[ch].pre = LANE_A_BROKEN
        /\ Gt32(Sub32(hist[ch].at, s_lanes[ch].last_edge_a_ms), MAX_TRANSIT_MS)
        /\ s_lanes[ch].state = LANE_COOLDOWN
        /\ s_lanes[ch].state_enter_ms = hist[ch].at
        /\ s_lanes[ch].bees_in = 0 /\ s_lanes[ch].bees_out = 0

\* The other half of C3's case: a B edge less than MIN_TRANSIT after the A
\* edge.
C3_WitnessTooFast ==
    \E ch \in Channels :
        /\ hist[ch].op = "B" /\ hist[ch].acc /\ hist[ch].pre = LANE_A_BROKEN
        /\ Lt32(Sub32(hist[ch].at, s_lanes[ch].last_edge_a_ms), MIN_TRANSIT_MS)
        /\ s_lanes[ch].state = LANE_COOLDOWN
        /\ s_lanes[ch].bees_in = 0 /\ s_lanes[ch].bees_out = 0

\* C4: an edge less than DEBOUNCE_WINDOW after the last accepted edge on the
\* same beam changes nothing of the lane, whatever its state (state, entry
\* time, counters, stuck and both last-edge times), and after such an edge a
\* valid completing edge on the other beam still counts.
C4_DebounceNoOp ==
    [][\A ch \in Channels :
        /\ ( StepOn(ch, "A")
             /\ \/ Lt32(Sub32(clock, s_lanes[ch].last_edge_a_ms), DEBOUNCE_MS)
                \/ hist[ch].op = "A" /\ hist[ch].acc
                   /\ Lt32(Sub32(clock, hist[ch].at), DEBOUNCE_MS) )
           => s_lanes'[ch] = s_lanes[ch]
        /\ ( StepOn(ch, "B")
             /\ \/ Lt32(Sub32(clock, s_lanes[ch].last_edge_b_ms), DEBOUNCE_MS)
                \/ hist[ch].op = "B" /\ hist[ch].acc
                   /\ Lt32(Sub32(clock, hist[ch].at), DEBOUNCE_MS) )
           => s_lanes'[ch] = s_lanes[ch]
        /\ ( /\ hist[ch].op = "A" /\ ~hist[ch].acc
             /\ s_lanes[ch].state = LANE_A_BROKEN
             /\ Accepted(ch, "B")
             /\ ValidTransit(Sub32(clock, s_lanes[ch].state_enter_ms)) )
           => /\ s_lanes'[ch].state = LANE_COOLDOWN
              /\ s_lanes'[ch].bees_in = s_lanes[ch].bees_in + 1
        /\ ( /\ hist[ch].op = "B" /\ ~hist[ch].acc
             /\ s_lanes[ch].state = LANE_B_BROKEN
             /\ Accepted(ch, "A")
             /\ ValidTransit(Sub32(clock, s_lanes[ch].state_enter_ms)) )
           => /\ s_lanes'[ch].state = LANE_COOLDOWN
              /\ s_lanes'[ch].bees_out = s_lanes[ch].bees_out + 1
    ]_vars

\* An A edge 1 or 2 ms after the accepted A edge that put the lane in
\* A_BROKEN has been rejected.
C4_Witness ==
    \E ch \in Channels :
        /\ hist[ch].op = "A" /\ ~hist[ch].acc /\ hist[ch].pre = LANE_A_BROKEN
        /\ s_lanes[ch].state = LANE_A_BROKEN
        /\ s_lanes[ch].state_enter_ms = s_lanes[ch].last_edge_a_ms
        /\ hist[ch].at # s_lanes[ch].last_edge_a_ms
        /\ Lt32(Sub32(hist[ch].at, s_lanes[ch].last_edge_a_ms), DEBOUNCE_MS)

\* C5: a timeout check on a lane in A_BROKEN or B_BROKEN reverts it to IDLE
\* iff now - state_entered_at > MAX_TRANSIT, else leaves the state; either way
\* the counters are unchanged.
C5_IncompleteTransitTimeout ==
    [][\A ch \in Channels :
        (StepOn(ch, "check") /\ s_lanes[ch].state \in Waiting)
        => /\ s_lanes'[ch].state =
                 IF Gt32(Sub32(clock, s_lanes[ch].state_enter_ms), MAX_TRANSIT_MS)
                 THEN LANE_IDLE ELSE s_lanes[ch].state
           /\ SameCounts(ch)
    ]_vars

\* A check has reverted a waiting lane to IDLE, nothing counted.
C5_Witness ==
    \E ch \in Channels :
        /\ hist[ch].op = "check" /\ hist[ch].pre \in Waiting
        /\ Gt32(Sub32(hist[ch].at, s_lanes[ch].state_enter_ms), MAX_TRANSIT_MS)
        /\ s_lanes[ch].state = LANE_IDLE
        /\ s_lanes[ch].bees_in = 0 /\ s_lanes[ch].bees_out = 0

\* The other half of C5's case: a check exactly MAX_TRANSIT after the first
\* edge has left the lane waiting.
C5_WitnessStays ==
    \E ch \in Channels :
        /\ hist[ch].op = "check" /\ hist[ch].pre \in Waiting
        /\ Sub32(hist[ch].at, s_lanes[ch].state_enter_ms) = U32(MAX_TRANSIT_MS)
        /\ s_lanes[ch].state \in Waiting

\* C6: in COOLDOWN an edge on either beam leaves state, entry time and both
\* counters unchanged; a timeout check leaves the lane in COOLDOWN while
\* now - state_entered_at < REFRACTORY_PERIOD and reverts it to IDLE once
\* now - state_entered_at >= REFRACTORY_PERIOD.
C6_Cooldown ==
    [][\A ch \in Channels :
        s_lanes[ch].state = LANE_COOLDOWN
        => /\ (StepOn(ch, "A") \/ StepOn(ch, "B"))
              => /\ s_lanes'[ch].state = LANE_COOLDOWN
                 /\ s_lanes'[ch].state_enter_ms = s_lanes[ch].state_enter_ms
                 /\ SameCounts(ch)
           /\ StepOn(ch, "check")
              => s_lanes'[ch].state =
                    IF Lt32(Sub32(clock, s_lanes[ch].state_enter_ms), REFRACTORY_MS)
                    THEN LANE_COOLDOWN ELSE LANE_IDLE
    ]_vars

\* An edge that passed the debounce test was ignored by a lane in COOLDOWN
\* after a counted transit.
C6_Witness ==
    \E ch \in Channels :
        /\ hist[ch].op \in {"A", "B"} /\ hist[ch].acc /\ hist[ch].pre = LANE_COOLDOWN
        /\ s_lanes[ch].state = LANE_COOLDOWN
        /\ s_lanes[ch].bees_in + s_lanes[ch].bees_out = 1

\* The other halves of C6's case: a check before and a check at the end of
\* the refractory period.
C6_WitnessCheckStays ==
    \E ch \in Channels :
        /\ hist[ch].op = "check" /\ hist[ch].pre = LANE_COOLDOWN
        /\ s_lanes[ch].state = LANE_COOLDOWN

C6_WitnessCheckIdle ==
    \E ch \in Channels :
        /\ hist[ch].op = "check" /\ hist[ch].pre = LANE_COOLDOWN
        /\ Sub32(hist[ch].at, s_lanes[ch].state_enter_ms) = U32(REFRACTORY_MS)
        /\ s_lanes[ch].state = LANE_IDLE

\* C7: once REFRACTORY_PERIOD has elapsed since a lane entered COOLDOWN the
\* lane is re-armed: the next edge that passes the debounce test starts a new
\* transit (the lane goes to A_BROKEN or B_BROKEN).
C7_RearmedAfterRefractory ==
    [][\A ch \in Channels :
        ( /\ s_lanes[ch].state = LANE_COOLDOWN
          /\ Ge32(Sub32(clock, s_lanes[ch].state_enter_ms), REFRACTORY_MS)
          /\ (Accepted(ch, "A") \/ Accepted(ch, "B")) )
        => s_lanes'[ch].state \in Waiting
    ]_vars

\* C8: a timeout check on a waiting lane with now - state_entered_at >
\* STUCK_THRESHOLD sets stuck although the same call reverts the lane to IDLE,
\* and stuck then stays set across edges and checks (anything but a snapshot).
C8_StuckLatch ==
    [][\A ch \in Channels :
        /\ ( /\ StepOn(ch, "check") /\ s_lanes[ch].state \in Waiting
             /\ Gt32(Sub32(clock, s_lanes[ch].state_enter_ms), STUCK_BEAM_MS) )
           => s_lanes'[ch].stuck /\ s_lanes'[ch].state = LANE_IDLE
        /\ (s_lanes[ch].stuck /\ hist'[ch].op # "snap") => s_lanes'[ch].stuck
    ]_vars

\* A lane latched stuck by a check has since taken an accepted edge and is
\* still stuck.
C8_Witness ==
    \E ch \in Channels :
        /\ s_lanes[ch].stuck
        /\ hist[ch].op \in {"A", "B"} /\ hist[ch].acc
        /\ s_lanes[ch].state \in Waiting

\* The check that latched it: the lane is back in IDLE with stuck set.
C8_WitnessCheck ==
    \E ch \in Channels :
        /\ hist[ch].op = "check" /\ hist[ch].acc /\ hist[ch].pre \in Waiting
        /\ s_lanes[ch].stuck /\ s_lanes[ch].state = LANE_IDLE

\* C9: with timeout checks no more than STUCK_THRESHOLD apart, a lane whose
\* first beam broke at state_entered_at and that received no completing edge
\* has stuck set by the check that runs once more than STUCK_THRESHOLD has
\* elapsed, also when an earlier check reverted the lane to IDLE.  Here the
\* last operation on the lane was a check, no later than STUCK_THRESHOLD
\* after the first edge, that found it waiting; the next check is no more
\* than STUCK_THRESHOLD after that one.
C9_StuckDetectedUnderCadence ==
    [][\A ch \in Channels :
        ( /\ hist[ch].op = "check" /\ hist[ch].pre \in Waiting
          /\ Le32(Sub32(hist[ch].at, s_lanes[ch].state_enter_ms), STUCK_BEAM_MS)
          /\ StepOn(ch, "check")
          /\ Le32(Sub32(clock, hist[ch].at), STUCK_BEAM_MS)
          /\ Gt32(Sub32(clock, s_lanes[ch].state_enter_ms), STUCK_BEAM_MS) )
        => s_lanes'[ch].stuck
    ]_vars

RECURSIVE SumField(_, _, _, _)
\* The sum of a counter over the lanes 0 .. ch enabled in the mask.
SumField(lanes, mask, name, ch) ==
    IF ch < 0 THEN 0
    ELSE (IF BitSet(mask, ch) THEN lanes[ch][name] ELSE 0)
         + SumField(lanes, mask, name, ch - 1)

\* C10: the snapshot runs the timeout check on every enabled lane, returns
\* the sums of their count_in and count_out, zeroes both counters, sets bit ch
\* of stuck_mask iff lane ch is stuck (after that check) and clears the flag;
\* the returned lane_mask is the configured mask.  The sums are compared
\* where they fit the 16-bit result fields.
C10_SnapshotDrain ==
    [][(pc = "snap" /\ pc' = "report")
       => /\ LET total == SumField(s_lanes, s_lane_mask, "bees_in", NUM_CHANNELS - 1)
             IN  total <= UINT16_MAX => snap'.bees_in = total
          /\ LET total == SumField(s_lanes, s_lane_mask, "bees_out", NUM_CHANNELS - 1)
             IN  total <= UINT16_MAX => snap'.bees_out = total
          /\ snap'.lane_mask = s_lane_mask
          /\ \A ch \in Channels :
                BitSet(s_lane_mask, ch)
                => LET checked == lane_check_timeout(s_lanes[ch], snap_now)
                   IN  /\ s_lanes'[ch].state = checked.state
                       /\ s_lanes'[ch].bees_in = 0
                       /\ s_lanes'[ch].bees_out = 0
                       /\ ~s_lanes'[ch].stuck
                       /\ BitSet(snap'.stuck_mask, ch) <=> checked.stuck
    ]_vars

\* A snapshot has summed counts of several lanes and reported a stuck lane,
\* and every enabled lane is drained.
C10_Witness ==
    /\ pc = "report"
    /\ snap.bees_in >= 2 /\ snap.bees_out >= 1
    /\ snap.stuck_mask # 0
    /\ \A ch \in Channels :
          BitSet(s_lane_mask, ch)
          => /\ s_lanes[ch].bees_in = 0 /\ s_lanes[ch].bees_out = 0
             /\ ~s_lanes[ch].stuck

\* min(a, b)
Min(a, b) == IF a < b THEN a ELSE b

RECURSIVE SumClamped(_, _, _, _)
\* The sum over the lanes 0 .. ch enabled in the mask of min(65535, counter).
SumClamped(lanes, mask, name, ch) ==
    IF ch < 0 THEN 0
    ELSE (IF BitSet(mask, ch) THEN Min(UINT16_MAX, lanes[ch][name]) ELSE 0)
         + SumClamped(lanes, mask, name, ch - 1)

InCritical == pc \in {"loop", "checked", "read"}

\* C12: under every interleaving of the beam interrupts with snapshot calls
\* no count is lost or reported twice: outside the snapshot's critical
\* section the increments made by the edge handlers equal the counts returned
\* by all snapshots so far plus the counts pending in the lanes, per
\* direction; and a snapshot returns exactly what was pending when its
\* critical section began and leaves nothing pending in the enabled lanes.
C12_NoCountLostOrDoubled ==
    [][/\ s_mux' = "free"
          => /\ audit'.counted_in = audit'.reported_in
                    + SumField(s_lanes', Pow2(NUM_CHANNELS) - 1, "bees_in", NUM_CHANNELS - 1)
             /\ audit'.counted_out = audit'.reported_out
                    + SumField(s_lanes', Pow2(NUM_CHANNELS) - 1, "bees_out", NUM_CHANNELS - 1)
       /\ (InCritical /\ pc' = "report")
          => /\ snap'.bees_in = SumField(audit.entry, s_lane_mask, "bees_in", NUM_CHANNELS - 1)
             /\ snap'.bees_out = SumField(audit.entry, s_lane_mask, "bees_out", NUM_CHANNELS - 1)
             /\ SumField(s_lanes', s_lane_mask, "bees_in", NUM_CHANNELS - 1) = 0
             /\ SumField(s_lanes', s_lane_mask, "bees_out", NUM_CHANNELS - 1) = 0
    ]_vars

\* A snapshot has returned a count whose completing edge arrived after the
\* snapshot had read its clock, before its critical section.
C12_Witness ==
    /\ pc = "report"
    /\ snap.bees_in = 1
    /\ audit.counted_in = 1 /\ audit.reported_in = 1
    /\ \E ch \in Channels :
          /\ hist[ch].op = "snap" /\ hist[ch].pre = LANE_COOLDOWN
          /\ Sub32(s_lanes[ch].last_edge_b_ms, s_last_snapshot_ms) = U32(MIN_TRANSIT_MS)

\* C13: the edge handlers and the snapshot's loop over the lanes exclude one
\* another: the snapshot is in its loop exactly while it holds the spinlock,
\* no edge handler runs while it does (so none runs between the timeout
\* check of a lane and the reading and zeroing of its counters), and the
\* snapshot therefore returns, and leaves in the lanes, what the whole
\* function computes from the lanes it found on entry.
C13_MutualExclusion ==
    [][/\ InCritical' <=> s_mux' = "snap"
       /\ \A ch \in Channels :
             (StepOn(ch, "A") \/ StepOn(ch, "B")) => (s_mux = "free" /\ ~InCritical)
       /\ (InCritical /\ pc' = "report")
          => /\ snap' = bee_counter_snapshot(audit.entry, s_lane_mask,
                                             s_last_snapshot_ms, snap_now)
             /\ s_lanes' = [ch \in Channels |->
                              IF BitSet(s_lane_mask, ch)
                              THEN SnapLane(audit.entry[ch], snap_now)
                              ELSE audit.entry[ch]]
    ]_vars

\* The snapshot stands between its timeout check of a lane and its reading
\* of that lane's counters, a count pending in the lane.
C13_Witness ==
    /\ pc = "checked" /\ s_mux = "snap"
    /\ s_lanes[snap_loc.ch].bees_in = 1
    /\ hist[snap_loc.ch].op = "snap"

\* This step applies an edge handler or a timeout check to lane ch.
LaneOp(ch) == StepOn(ch, "A") \/ StepOn(ch, "B") \/ StepOn(ch, "check")

\* C14: state_entered_at is updated on every change of a lane's state and by
\* no other step: an edge handler or timeout check that changes state sets
\* state_entered_at to its now, one that leaves state unchanged leaves
\* state_entered_at unchanged.
C14_EnterTimeTracksState ==
    [][\A ch \in Channels :
        LaneOp(ch)
        => s_lanes'[ch].state_enter_ms =
              IF s_lanes'[ch].state # s_lanes[ch].state
              THEN clock ELSE s_lanes[ch].state_enter_ms
    ]_vars

\* C15: an edge-handler call adds at most 1 to count_in + count_out, never
\* to both counters, and only when it moves the lane from A_BROKEN or
\* B_BROKEN to COOLDOWN; nothing but the snapshot's drain decreases a counter.
C15_OneCountPerTransit ==
    [][\A ch \in Channels :
        LET din  == s_lanes'[ch].bees_in - s_lanes[ch].bees_in
            dout == s_lanes'[ch].bees_out - s_lanes[ch].bees_out
        IN  /\ (StepOn(ch, "A") \/ StepOn(ch, "B"))
               => /\ din \in {0, 1} /\ dout \in {0, 1} /\ din + dout <= 1
                  /\ din + dout = 1
                     => /\ s_lanes[ch].state \in Waiting
                        /\ s_lanes'[ch].state = LANE_COOLDOWN
            /\ hist'[ch].op # "snap" => (din >= 0 /\ dout >= 0)
            /\ StepOn(ch, "check") => (din = 0 /\ dout = 0)
    ]_vars

\* A completing A edge has counted one bee out and nothing in.
C15_Witness ==
    \E ch \in Channels :
        /\ hist[ch].op = "A" /\ hist[ch].acc /\ hist[ch].pre = LANE_B_BROKEN
        /\ hist[ch].at = s_lanes[ch].state_enter_ms
        /\ s_lanes[ch].state = LANE_COOLDOWN
        /\ s_lanes[ch].bees_out = 1 /\ s_lanes[ch].bees_in = 0

\* The state changes a lane can make, as <<from, operation, to>>.
LaneGraph ==
    { <<LANE_IDLE, "A", LANE_A_BROKEN>>,     <<LANE_IDLE, "B", LANE_B_BROKEN>>,
      <<LANE_A_BROKEN, "B", LANE_COOLDOWN>>, <<LANE_B_BROKEN, "A", LANE_COOLDOWN>>,
      <<LANE_A_BROKEN, "check", LANE_IDLE>>, <<LANE_B_BROKEN, "check", LANE_IDLE>>,
      <<LANE_COOLDOWN, "check", LANE_IDLE>> }

\* C16: a lane starts in IDLE with its counters zero, and its state changes
\* only along IDLE -> A_BROKEN (A edge), IDLE -> B_BROKEN (B edge),
\* A_BROKEN -> COOLDOWN (B edge), B_BROKEN -> COOLDOWN (A edge), and
\* A_BROKEN, B_BROKEN or COOLDOWN -> IDLE (timeout check).
C16_LaneStateGraph ==
    /\ \A ch \in Channels :
          /\ s_lanes[ch].state = LANE_IDLE
          /\ s_lanes[ch].bees_in = 0 /\ s_lanes[ch].bees_out = 0
    /\ [][\A ch \in Channels :
            s_lanes'[ch].state # s_lanes[ch].state
            => <<s_lanes[ch].state, hist'[ch].op, s_lanes'[ch].state>> \in LaneGraph
       ]_vars

\* A lane has gone round the graph: a check has taken it from COOLDOWN back
\* to IDLE after a counted transit.
C16_Witness ==
    \E ch \in Channels :
        /\ hist[ch].op = "check" /\ hist[ch].pre = LANE_COOLDOWN
        /\ s_lanes[ch].state = LANE_IDLE
        /\ s_lanes[ch].bees_in + s_lanes[ch].bees_out = 1

\* This step is a statement of bee_counter_snapshot or of its caller.
SnapshotStep == pc' # pc \/ snap_loc' # snap_loc

C18_StuckReportedOnce ==
    [][\A ch \in Channels :
        /\ (~s_lanes[ch].stuck /\ s_lanes'[ch].stuck)
           => /\ hist'[ch].op \in {"check", "snap"}
              /\ s_lanes[ch].state \in Waiting
              /\ Gt32(Sub32(hist'[ch].at, s_lanes[ch].state_enter_ms), STUCK_BEAM_MS)
        /\ (BitSet(snap'.stuck_mask, ch) /\ ~BitSet(snap.stuck_mask, ch))
           => s_lanes[ch].stuck
        /\ (pc # "report" /\ pc' = "report" /\ BitSet(s_lane_mask, ch))
           => ~s_lanes'[ch].stuck
        /\ ( /\ pc # "report" /\ pc' = "report"
             /\ ch \in audit.stuck_seen
             /\ BitSet(snap'.stuck_mask, ch) )
           => /\ hist[ch].op = "snap" /\ hist[ch].pre \in Waiting
              /\ Gt32(Sub32(hist[ch].at, s_lanes[ch].state_enter_ms), STUCK_BEAM_MS)
    ]_vars

\* After a snapshot that reported a stuck lane, a later snapshot has
\* returned with no stuck bit.
C18_Witness ==
    /\ pc = "report" /\ snap.valid
    /\ snap.stuck_mask = 0
    /\ audit.stuck_seen # {}

\* The other case of C18: a lane reported stuck is reported again by a later
\* snapshot, four seconds on.
C18_WitnessRelatch ==
    /\ pc = "report" /\ snap.valid
    /\ snap.stuck_mask # 0
    /\ \E ch \in Channels :
          /\ BitSet(snap.stuck_mask, ch)
          /\ Gt32(Sub32(s_last_snapshot_ms, s_lanes[ch].last_edge_a_ms), STUCK_BEAM_MS)
          /\ Gt32(Sub32(s_lanes[ch].last_edge_a_ms, T0), STUCK_BEAM_MS)
          /\ s_lanes[ch].last_edge_b_ms = U32(0)

\* C19: a lane at rest fed an A edge and, a valid transit time later, a B
\* edge has count_in = 1; a timeout check once the refractory period is over
\* returns it to IDLE; a B edge and then an A edge give count_out = 1 with
\* count_in still 1; the snapshot taken afterwards reports bees_in = 1,
\* bees_out = 1, stuck_mask = 0.
C19_TwoTransits ==
    /\ \A ch \in Channels :
          BitSet(s_lane_mask, ch)
          => /\ (ticks = 2 /\ Done(2))
                => /\ s_lanes[ch].state = LANE_COOLDOWN
                   /\ s_lanes[ch].bees_in = 1 /\ s_lanes[ch].bees_out = 0
             /\ (ticks = 3 /\ Done(3))
                => /\ s_lanes[ch].state = LANE_IDLE
                   /\ s_lanes[ch].bees_in = 1 /\ s_lanes[ch].bees_out = 0
             /\ (ticks = 5 /\ Done(5))
                => /\ s_lanes[ch].state = LANE_COOLDOWN
                   /\ s_lanes[ch].bees_in = 1 /\ s_lanes[ch].bees_out = 1
    /\ (ticks = 6 /\ Done(6))
       => /\ snap.bees_in = 1 /\ snap.bees_out = 1
          /\ snap.stuck_mask = 0

\* The scenario at its stated times: A at 100, B at 120, check at 150, B at
\* 200, A at 220, and the snapshot has returned.
C19_Witness ==
    /\ ticks = 6 /\ pc = "report" /\ snap.valid
    /\ clock = U32(220)
    /\ \E ch \in Channels :
          /\ BitSet(s_lane_mask, ch)
          /\ s_lanes[ch].last_edge_b_ms = U32(200)
          /\ s_lanes[ch].last_edge_a_ms = U32(220)
          /\ s_lanes[ch].state_enter_ms = U32(220)
    /\ snap.bees_in = 1 /\ snap.bees_out = 1

\* The lane entered its state in the last 65.536 s before the millisecond
\* clock wraps and the clock has wrapped since.
StraddlesWrap(ch) ==
    /\ s_lanes[ch].state_enter_ms.hi = UINT16_MAX
    /\ clock.hi = 0

\* C20: the timing comparisons being made on the unsigned difference now - t,
\* a transit whose first edge is just before the clock wraps and whose
\* completing edge is just after it, the true transit time within
\* [MIN_TRANSIT, MAX_TRANSIT], is counted like any other: the completing
\* edge moves the lane to COOLDOWN and adds one to the counter of its
\* direction.
C20_TransitAcrossWrapCounted ==
    [][\A ch \in Channels :
        /\ ( /\ s_lanes[ch].state = LANE_A_BROKEN /\ StraddlesWrap(ch)
             /\ StepOn(ch, "B")
             /\ ValidTransit(Sub32(clock, s_lanes[ch].state_enter_ms)) )
           => /\ s_lanes'[ch].state = LANE_COOLDOWN
              /\ s_lanes'[ch].bees_in = s_lanes[ch].bees_in + 1
        /\ ( /\ s_lanes[ch].state = LANE_B_BROKEN /\ StraddlesWrap(ch)
             /\ StepOn(ch, "A")
             /\ ValidTransit(Sub32(clock, s_lanes[ch].state_enter_ms)) )
           => /\ s_lanes'[ch].state = LANE_COOLDOWN
              /\ s_lanes'[ch].bees_out = s_lanes[ch].bees_out + 1
    ]_vars

\* What does hold across the wrap: a completing edge that passes the
\* debounce test is judged on the true transit time.
C20_AcceptedAcrossWrap ==
    [][\A ch \in Channels :
        ( /\ s_lanes[ch].state = LANE_A_BROKEN /\ StraddlesWrap(ch)
          /\ Accepted(ch, "B")
          /\ ValidTransit(Sub32(clock, s_lanes[ch].state_enter_ms)) )
        => /\ s_lanes'[ch].state = LANE_COOLDOWN
           /\ s_lanes'[ch].bees_in = s_lanes[ch].bees_in + 1
    ]_vars

\* A transit of 30 ms across the wrap has been counted.
C20_WitnessAccepted ==
    \E ch \in Channels :
        /\ s_lanes[ch].state = LANE_COOLDOWN /\ s_lanes[ch].bees_in = 1
        /\ s_lanes[ch].last_edge_a_ms.hi = UINT16_MAX
        /\ s_lanes[ch].last_edge_b_ms.hi = 0
        /\ hist[ch].op = "B" /\ hist[ch].pre = LANE_A_BROKEN

\* C21: a lane never stays in a waiting state.  While timeout checks keep
\* being invoked and time advances, a lane in A_BROKEN or B_BROKEN is
\* eventually back in IDLE unless a completing edge has taken it to COOLDOWN,
\* and a lane in COOLDOWN is eventually back in IDLE; the check that ends a
\* wait leaves bees_in and bees_out as they were.
C21_LaneReturnsToIdle ==
    /\ \A ch \in Channels :
         (s_lanes[ch].state \in Waiting /\ ticks + LiveHorizon <= MaxLiveTicks)
            ~> (s_lanes[ch].state \in {LANE_IDLE, LANE_COOLDOWN})
    /\ \A ch \in Channels :
         (s_lanes[ch].state = LANE_COOLDOWN /\ ticks < MaxLiveTicks)
            ~> (s_lanes[ch].state = LANE_IDLE)
    /\ [][\A ch \in Channels :
            (StepOn(ch, "check") /\ s_lanes[ch].state # LANE_IDLE
               /\ s_lanes'[ch].state = LANE_IDLE) => SameCounts(ch)]_vars

\* A lane that waited in A_BROKEN has been returned to IDLE by the timeout
\* check, no count made.
C21_Witness ==
    \E ch \in Channels :
       /\ hist[ch].op = "check" /\ hist[ch].pre = LANE_A_BROKEN /\ hist[ch].acc
       /\ s_lanes[ch].state = LANE_IDLE
       /\ s_lanes[ch].bees_in = 0 /\ s_lanes[ch].bees_out = 0

\* A lane has been returned from COOLDOWN to IDLE and has started the next
\* transit: IDLE is left again.
C21_WitnessCycle ==
    \E ch \in Channels :
       /\ s_lanes[ch].state = LANE_B_BROKEN
       /\ s_lanes[ch].bees_in = 1

\* The bytes cobs_encode returned: indices 0 .. len - 1 of the output buffer.
Encoded == SubSeq(output.output, 1, output.len)

EncodeDone == input.fn = "cobs_encode" /\ output # NotCalled

\* C22: the output of cobs_encode contains no 0x00 byte (and no byte the
\* encoder did not store), whatever the input.
C22_NoZeroInOutput ==
    EncodeDone =>
        /\ output.len <= Len(output.output)
        /\ \A k \in 1..output.len : output.output[k] \in 1..255

\* An input holding consecutive zeros and a run of 256 non-zero bytes has
\* been encoded.
C22_Witness ==
    /\ EncodeDone
    /\ input.data = <<0>> \o Run(256) \o <<0, 0>>

\* The empty input has been encoded.
C22_WitnessEmpty ==
    /\ EncodeDone
    /\ input.data = <<>>
    /\ Encoded = <<1>>

\* What the decoder returns for a sequence that is not a chain of blocks.
Malformed == <<Unwritten>>

\* One step of the standard byte-stuffing decoder, at the code byte in
\* position p: code c is followed by c - 1 literal bytes, and a zero is put
\* back after the block unless c = 255 or the block is the last one.
cobs_decode_block(st, enc) ==
    LET c == enc[st.p]
        next == st.p + c
    IN  IF c < 1 \/ next > Len(enc) + 1 THEN [st EXCEPT !.bad = TRUE]
        ELSE [p |-> next,
              out |-> st.out \o SubSeq(enc, st.p + 1, next - 1)
                        \o (IF c # 255 /\ next <= Len(enc) THEN <<0>> ELSE <<>>),
              blocks |-> Append(st.blocks, [code |-> c, at |-> Len(st.out)]),
              bad |-> FALSE]

\* At most n blocks decoded in order, until the end of the encoded bytes.
RECURSIVE cobs_decode_blocks(_, _, _)
cobs_decode_blocks(st, enc, n) ==
    IF st.bad \/ st.p > Len(enc) \/ n = 0 THEN st
    ELSE IF n = 1 THEN cobs_decode_block(st, enc)
    ELSE cobs_decode_blocks(cobs_decode_blocks(st, enc, n \div 2), enc, n - (n \div 2))

\* The decoder's state at the end of the encoded bytes: the bytes decoded,
\* and each block's code with the number of bytes decoded before it.
cobs_parse(enc) ==
    cobs_decode_blocks([p |-> 1, out |-> <<>>, blocks |-> <<>>, bad |-> enc = <<>>],
                       enc, Len(enc))

cobs_decode(enc) ==
    LET st == cobs_parse(enc)
    IN  IF st.bad THEN Malformed ELSE st.out

\* C23: round trip.  The standard byte-stuffing decoder applied to
\* cobs_encode(input) gives back the input, byte for byte.
C23_RoundTrip ==
    EncodeDone => cobs_decode(Encoded) = input.data

\* A 48-byte payload with zeros at both ends and a 54-byte frame with pairs
\* of zeros inside have been encoded.
C23_Witness ==
    /\ EncodeDone
    /\ input.data \in {<<0>> \o Run(46) \o <<0>>,
                       Run(4) \o Zeros(2) \o Run(46) \o Zeros(2)}
    /\ Len(input.data) \in FrameSizes

\* An input whose run of 254 non-zero bytes is followed by more data has
\* been encoded.
C23_WitnessLongRun ==
    /\ EncodeDone
    /\ input.data = Run(255) \o <<0>>

\* len + ceil(len / 254) + 1, the output buffer size the header asks for
CobsBound(len) == len + ((len + 253) \div 254) + 1

\* The indices of the output buffer cobs_encode has stored to.
WrittenIndices ==
    {k - 1 : k \in {j \in 1..Len(output.output) : output.output[j] # Unwritten}}

\* C24: for an input of length n, cobs_encode returns a length L with
\* 1 <= L <= n + ceil(n / 254) + 1 and stores to exactly the indices
\* 0 .. L - 1 of the output buffer, so to none at or beyond the bound; the
\* empty input encodes to the single byte 0x01.
C24_LengthBound ==
    EncodeDone =>
        /\ output.len >= 1
        /\ output.len <= CobsBound(Len(input.data))
        /\ WrittenIndices = 0..(output.len - 1)
        /\ input.data = <<>> => Encoded = <<1>>

\* An input that ends exactly at a full block has been encoded: the byte
\* reserved for the next code is given back.
C24_Witness ==
    /\ EncodeDone
    /\ input.data = <<0>> \o Run(254)
    /\ output.len = 256

\* An input of more than 254 bytes has been encoded.
C24_WitnessLong ==
    /\ EncodeDone
    /\ input.data = <<7>> \o Run(509) \o <<255, 255>>
    /\ output.len = 515

\* A maximal run of non-zero bytes of the input starts at position j.
RunStartsAt(in, j) == in[j] # 0 /\ (j = 1 \/ in[j - 1] = 0)

\* C25: maximum-run handling.  The code bytes of the output chain up: each
\* is one more than the number of data bytes before the next code byte, the
\* last block ending where the output ends.  A block has code 0xFF exactly
\* when it carries 254 non-zero bytes of one run of the input, a run of 254
\* or more non-zero bytes is closed with 0xFF, and the zeros of the input
\* are one for one the blocks that are neither 0xFF nor the last.  No code
\* byte follows a full block that ends the input: 254 non-zero bytes encode
\* to 255 bytes and 255 non-zero bytes to 257.
C25_MaxRun ==
    EncodeDone =>
        LET in == input.data
            st == cobs_parse(Encoded)
            n == Len(st.blocks)
        IN  /\ ~st.bad
            /\ st.p = output.len + 1
            /\ \A b \in 1..n :
                 st.blocks[b].code = 255 =>
                    \A k \in 1..254 : in[st.blocks[b].at + k] # 0
            /\ \A j \in 1..(Len(in) - 253) :
                 (RunStartsAt(in, j) /\ \A k \in 1..253 : in[j + k] # 0)
                    => \E b \in 1..n : st.blocks[b] = [code |-> 255, at |-> j - 1]
            /\ Cardinality({j \in 1..Len(in) : in[j] = 0})
                 = Cardinality({b \in 1..(n - 1) : st.blocks[b].code # 255})
            /\ (n > 1 /\ st.blocks[n].code = 1) => in[Len(in)] = 0
            /\ in = Run(254) => Encoded = <<255>> \o Run(254)
            /\ in = Run(255) => Encoded = <<255>> \o Run(254) \o <<2, 1>>

\* The input of exactly 254 non-zero bytes has been encoded to 255 bytes.
C25_Witness ==
    /\ EncodeDone
    /\ input.data = Run(254)
    /\ output.len = 255

\* The input of 255 non-zero bytes has been encoded to 257 bytes, and one
\* with a full block followed by a zero to two more code bytes.
C25_Witness255 ==
    /\ EncodeDone
    /\ \/ input.data = Run(255) /\ output.len = 257
       \/ input.data = Run(254) \o <<0>> /\ Encoded = <<255>> \o Run(254) \o <<1, 1>>

\* The number of zero bytes in a byte sequence.
ZeroCount(bytes) == Cardinality({k \in 1..Len(bytes) : bytes[k] = 0})

\* The packets of rx that the bridge forwards, in order.
Forwarded == SelectSeq(rx, LAMBDA pkt : Len(pkt.data) \in {PAYLOAD_LEN_P1, PAYLOAD_LEN_P2})

\* This step is on_data_recv receiving a packet of length 32 or 48.
Forwards ==
    /\ rx' # rx
    /\ Len(rx'[Len(rx')].data) \in {PAYLOAD_LEN_P1, PAYLOAD_LEN_P2}

\* C26: wire framing.  For every packet of length 32 or 48 received, the
\* bytes written to Serial are cobs_encode(MAC followed by payload) followed
\* by one 0x00: the frame holds exactly one zero byte, its last, and the
\* stream holds one zero byte per forwarded packet.
C26_WireFraming ==
    /\ [][Forwards =>
            LET pkt == rx'[Len(rx')]
                encoded == cobs_encode(pkt.mac \o pkt.data)
                wire == SubSeq(serial', Len(serial) + 1, Len(serial'))
            IN  /\ SubSeq(serial', 1, Len(serial)) = serial
                /\ Len(pkt.mac \o pkt.data) \in {38, 54}
                /\ wire = SubSeq(encoded.output, 1, encoded.len) \o <<0>>
                /\ ZeroCount(wire) = 1
                /\ wire[Len(wire)] = 0
                /\ cobs_decode(SubSeq(wire, 1, Len(wire) - 1)) = pkt.mac \o pkt.data]_vars
    /\ [](ZeroCount(serial) = Len(Forwarded))

\* Two packets, one of either size, have been forwarded.
C26_Witness ==
    /\ Len(Forwarded) = 2
    /\ Len(Forwarded[1].data) = PAYLOAD_LEN_P1
    /\ Len(Forwarded[2].data) = PAYLOAD_LEN_P2
    /\ ZeroCount(Forwarded[2].data) > 0
    /\ ZeroCount(serial) = 2

CrcDone == input.fn = "crc8" /\ output # NotCalled

\* x^(8 + k) modulo x^8 + x^2 + x + 1: the CRC-8 (polynomial 0x07, initial
\* value 0, MSB first, no reflection, no final XOR) of the byte 1 << k.
PolyBasis == <<7, 14, 28, 56, 112, 224, 199, 137>>

\* The remainder of the polynomial b * x^8, summed over the bits of b.
RECURSIVE PolyRemainder(_, _)
PolyRemainder(b, k) ==
    IF k > 8 THEN 0
    ELSE Xor8(IF (b \div Pow2(k - 1)) % 2 = 1 THEN PolyBasis[k] ELSE 0,
              PolyRemainder(b, k + 1))

\* C27: crc8 is CRC-8 with polynomial 0x07, initial value 0x00, MSB first,
\* no reflection and no final XOR: crc8("123456789") = 0xF4, crc8({0x01}) =
\* 0x07, crc8({0x00}) = 0x00, crc8({0xFF,0xFF,0xFF,0xFF}) = 0xDE and
\* crc8 of the empty sequence = 0x00; the crc of a single byte is the
\* remainder of its polynomial, and a further byte is folded into the
\* running remainder.
C27_Crc8Vectors ==
    CrcDone =>
        /\ output.crc \in 0..255
        /\ input.data = CheckString => output.crc = 244
        /\ input.data = <<1>> => output.crc = 7
        /\ input.data = <<0>> => output.crc = 0
        /\ input.data = <<255, 255, 255, 255>> => output.crc = 222
        /\ input.data = <<>> => output.crc = 0
        /\ Len(input.data) = 1 => output.crc = PolyRemainder(input.data[1], 1)
        /\ Len(input.data) = 2 =>
             output.crc = PolyRemainder(Xor8(PolyRemainder(input.data[1], 1), input.data[2]), 1)

\* crc8 has been applied to the reference string.
C27_Witness ==
    /\ CrcDone
    /\ input.data = CheckString
    /\ output.crc = 244

\* crc8 has been applied to a byte whose top bit is set.
C27_WitnessTopBit ==
    /\ CrcDone
    /\ input.data = <<128>>
    /\ output.crc = 137

BuildDone == input.fn \in {"payload_build", "payload_build_v2"} /\ output # NotCalled

\* The bee counting arguments all zero.
NoBees ==
    [bees_in |-> 0, bees_out |-> 0, period_ms |-> U32(0), lane_mask |-> 0,
     stuck_mask |-> 0]

\* C28: checksum coverage.  The crc byte at offset 17 of the record built by
\* payload_build and by payload_build_v2 is crc8 of bytes 0 .. 16 of that
\* record, and in the extended record it is what it is with bees_in,
\* bees_out, period_ms, lane_mask and stuck_mask all zero: it does not
\* depend on them.
C28_ChecksumCoverage ==
    BuildDone =>
        /\ output.p[18] = crc8(SubSeq(output.p, 1, 17), 17)
        /\ input.fn = "payload_build_v2" =>
             output.p[18] =
                payload_build_v2([f \in DOMAIN input.args |->
                                    IF f \in DOMAIN NoBees THEN NoBees[f]
                                    ELSE input.args[f]])[18]

\* An extended record has been built with every bee counting argument
\* non-zero.
C28_Witness ==
    /\ BuildDone
    /\ input.fn = "payload_build_v2"
    /\ input.args.bees_in = 4660 /\ input.args.bees_out = 22136
    /\ input.args.period_ms = [hi |-> 57005, lo |-> 48879]
    /\ input.args.stuck_mask = 3
    /\ output.p[18] # 0

\* A 32-byte record has been built.
C28_WitnessV1 ==
    /\ BuildDone
    /\ input.fn = "payload_build"
    /\ input.args.weight_g < 0
    /\ output.p[18] # 0

\* The unsigned integer read from the `size` bytes at offset `off`, least
\* significant byte first.
ReadLE(p, off, size) ==
    IF size = 1 THEN p[off + 1]
    ELSE IF size = 2 THEN p[off + 1] + 256 * p[off + 2]
    ELSE p[off + 1] + 256 * p[off + 2] + 65536 * p[off + 3]

\* The signed integer read from the `size` bytes at offset `off`.
ReadSignedLE(p, off, size) ==
    LET top == p[off + size]
    IN  ReadLE(p, off, size - 1)
          + Pow2(8 * (size - 1)) * (IF top >= 128 THEN top - 256 ELSE top)

\* C29: payload layout.  payload_build gives 32 bytes with msg_type 1 and
\* bytes 18 .. 31 zero; payload_build_v2 gives 48 bytes with msg_type 2 and
\* bytes 28 .. 47 zero; every field sits little-endian at its fixed offset
\* and reads back as the argument passed in.
C29_PayloadLayout ==
    BuildDone =>
        LET p == output.p
            a == input.args
            v2 == input.fn = "payload_build_v2"
        IN  /\ Len(p) = IF v2 THEN 48 ELSE 32
            /\ \A k \in 1..Len(p) : p[k] \in 0..255
            /\ ReadLE(p, 0, 1) = a.hive_id
            /\ ReadLE(p, 1, 1) = IF v2 THEN 2 ELSE 1
            /\ ReadLE(p, 2, 2) = a.sequence
            /\ ReadSignedLE(p, 4, 4) = a.weight_g
            /\ ReadSignedLE(p, 8, 2) = a.temp_c_x100
            /\ ReadLE(p, 10, 2) = a.humidity_x100
            /\ ReadLE(p, 12, 2) = a.pressure_hpa_x10
            /\ ReadLE(p, 14, 2) = a.battery_mv
            /\ ReadLE(p, 16, 1) = a.flags
            /\ ~v2 => \A k \in 18..31 : p[k + 1] = 0
            /\ v2 =>
                 /\ ReadLE(p, 18, 2) = a.bees_in
                 /\ ReadLE(p, 20, 2) = a.bees_out
                 /\ ReadLE(p, 22, 2) = a.period_ms.lo
                 /\ ReadLE(p, 24, 2) = a.period_ms.hi
                 /\ ReadLE(p, 26, 1) = a.lane_mask
                 /\ ReadLE(p, 27, 1) = a.stuck_mask
                 /\ \A k \in 28..47 : p[k + 1] = 0

\* The record of test_bee_count_payload_raw_bytes: bees_in 0x1234 at bytes
\* 18-19, bees_out 0x5678 at 20-21, period_ms 0xDEADBEEF at 22-25.
C29_Witness ==
    /\ BuildDone
    /\ input.fn = "payload_build_v2"
    /\ SubSeq(output.p, 19, 28) = <<52, 18, 120, 86, 239, 190, 173, 222, 15, 3>>
    /\ input.args.hive_id = 170

\* A 32-byte record has been built from a negative weight and a negative
\* temperature.
C29_WitnessSigned ==
    /\ BuildDone
    /\ input.fn = "payload_build"
    /\ input.args.weight_g = -500 /\ input.args.temp_c_x100 = -1000
    /\ SubSeq(output.p, 5, 10) = <<12, 254, 255, 255, 24, 252>>

\* A collection cycle has built its payload.
Collected == pc = "main" /\ input.fn = "wake" /\ input'.fn = "loop"

\* C30 (stuck half): the payload's flags bit2 is set iff the snapshot's
\* stuck_mask is non-zero, and bit1 is set iff the snapshot reports 65535 in
\* a direction.
C30_FlagsFollowSnapshot ==
    [][Collected
       => /\ BitSet(output'.p[17], 2) <=> snap'.stuck_mask # 0
          /\ BitSet(output'.p[17], 1)
               <=> (snap'.bees_in = 65535 \/ snap'.bees_out = 65535)
    ]_vars

C30_Witness ==
    /\ input.fn = "loop"
    /\ snap.stuck_mask = 4 /\ snap.bees_in = 65535
    /\ BitSet(output.p[17], 1) /\ BitSet(output.p[17], 2)

\* What holds of comms_send whatever the callbacks do: at most
\* ESPNOW_MAX_RETRIES calls of esp_now_send, each wait at most 500 ms, true
\* returned only after a callback has stored a success during the call, false
\* only after the last attempt.
C31_BoundedRetries ==
    /\ tx.sends <= ESPNOW_MAX_RETRIES
    /\ tx.waited <= SEND_WAIT_MS
    /\ tx.result = "true" => tx.reported
    /\ tx.result = "false" => tx.sends = ESPNOW_MAX_RETRIES

\* C31: comms_send makes at most ESPNOW_MAX_RETRIES send attempts and none
\* after a delivery callback has acknowledged one of them, waits at most
\* 500 ms for each callback, returns true only if a callback reported
\* success during the call, and false only when all three attempts have
\* been made.
C31_CommsSend ==
    /\ []C31_BoundedRetries
    /\ [][tx'.sends > tx.sends => ~tx.acked]_vars

\* comms_send has returned, true on the second attempt after a first one
\* that failed, or false after three attempts.
C31_Witness ==
    \/ tx.result = "true" /\ tx.sends = 2 /\ tx.reported
    \/ tx.result = "false" /\ tx.sends = ESPNOW_MAX_RETRIES /\ ~tx.acked

\* The snapshot applies lane_check_timeout to the lane of its loop index.
SnapChecks == pc = "loop" /\ pc' = "checked"

\* The time that has really passed since lane ch entered its state.
RealElapsed(ch) == Sub32(clock, s_lanes[ch].state_enter_ms)

\* C32: no spurious timeout or stuck report from the snapshot's clock read.
\* The snapshot's check sets stuck only for a lane that has been in A_BROKEN
\* or B_BROKEN for more than STUCK_BEAM_MS of real time, reverts a waiting
\* lane to IDLE only after more than MAX_TRANSIT_MS and a lane in COOLDOWN
\* only after at least REFRACTORY_MS since it entered the state, whatever
\* the interleaving of the edge interrupts.
C32_NoSpuriousTimeout ==
    [][SnapChecks
       => LET ch == snap_loc.ch
              before == s_lanes[ch]
              after == s_lanes'[ch]
          IN  /\ (after.stuck /\ ~before.stuck)
                   => before.state \in Waiting /\ Gt32(RealElapsed(ch), STUCK_BEAM_MS)
              /\ (before.state \in Waiting /\ after.state = LANE_IDLE)
                   => Gt32(RealElapsed(ch), MAX_TRANSIT_MS)
              /\ (before.state = LANE_COOLDOWN /\ after.state = LANE_IDLE)
                   => Ge32(RealElapsed(ch), REFRACTORY_MS)
    ]_vars

\* C32, for a snapshot whose lane has not changed state since the snapshot
\* read the clock: the check is never spurious.
C32_NoSpuriousWithoutRace ==
    [][(SnapChecks /\ Sub32(snap_now, s_lanes[snap_loc.ch].state_enter_ms).hi < 32768)
       => LET ch == snap_loc.ch
              before == s_lanes[ch]
              after == s_lanes'[ch]
          IN  /\ (after.stuck /\ ~before.stuck)
                   => before.state \in Waiting /\ Gt32(RealElapsed(ch), STUCK_BEAM_MS)
              /\ (before.state \in Waiting /\ after.state = LANE_IDLE)
                   => Gt32(RealElapsed(ch), MAX_TRANSIT_MS)
              /\ (before.state = LANE_COOLDOWN /\ after.state = LANE_IDLE)
                   => Ge32(RealElapsed(ch), REFRACTORY_MS)
    ]_vars

RECURSIVE ActiveLanes(_, _)
\* The number of lanes 0 .. ch enabled in the mask.
ActiveLanes(mask, ch) ==
    IF ch < 0 THEN 0
    ELSE (IF BitSet(mask, ch) THEN 1 ELSE 0) + ActiveLanes(mask, ch - 1)

\* C33: in the firmware, where only bee_counter_snapshot calls
\* lane_check_timeout, a lane counts at most one transit between two
\* snapshots (its counters, zeroed by every snapshot, never add up to more
\* than 1), so bees_in + bees_out of every snapshot is at most the number of
\* active lanes, which is at most 4.
C33_OneCountPerLane ==
    /\ \A ch \in Channels : s_lanes[ch].bees_in + s_lanes[ch].bees_out <= 1
    /\ snap.valid
         => /\ snap.bees_in + snap.bees_out <= ActiveLanes(snap.lane_mask, NUM_CHANNELS - 1)
            /\ ActiveLanes(snap.lane_mask, NUM_CHANNELS - 1) <= 4

\* A snapshot has reported the one transit its lane had counted, and the
\* lane, still in COOLDOWN, has seen a further edge since without counting.
C33_Witness ==
    /\ snap.valid
    /\ snap.bees_in + snap.bees_out = 1
    /\ \E ch \in Channels :
          /\ BitSet(s_lane_mask, ch)
          /\ s_lanes[ch].state = LANE_COOLDOWN
          /\ s_lanes[ch].bees_in + s_lanes[ch].bees_out = 0
          /\ hist[ch].op \in {"A", "B"}
          /\ hist[ch].pre = LANE_COOLDOWN

\* This step is on_data_recv writing a frame to Serial.
Accepts == rx' # rx /\ serial' # serial

\* C34: bridge buffer safety.  For every packet the bridge accepts the frame
\* of MAC and payload is 38 or 54 bytes, so fits the MAX_DECODED_SIZE bytes
\* of frame[]; cobs_encode returns at most 55 and stores to indices below
\* that only, so within the COBS_MAX_OUTPUT bytes of encoded[].
C34_BuffersSuffice ==
    [][Accepts =>
          LET pkt == rx'[Len(rx')]
              frame == Frame(pkt.mac, pkt.data)
              encoded == cobs_encode(frame)
          IN  /\ Len(pkt.data) \in {PAYLOAD_LEN_P1, PAYLOAD_LEN_P2}
              /\ Len(frame) \in {38, 54}
              /\ Len(frame) <= MAX_DECODED_SIZE
              /\ encoded.len = Len(frame) + 1
              /\ encoded.len <= 55
              /\ Len(encoded.output) <= encoded.len
              /\ encoded.len <= COBS_MAX_OUTPUT
    ]_vars

\* A 48-byte packet without a zero byte from a sender without a zero byte has
\* been forwarded: the longest frame, encoded to 55 bytes and the delimiter.
C34_Witness ==
    /\ Len(rx) = 1
    /\ rx[1].data = Run(PAYLOAD_LEN_P2)
    /\ ZeroCount(rx[1].mac) = 0
    /\ Len(serial) = 56

\* This step is on_data_recv receiving a packet.
Receives == rx' # rx

\* C35: the bridge forwards only well-sized packets.  A packet whose length
\* is neither 32 nor 48 writes no byte to Serial, adds 1 to err_bad_len and
\* leaves the LED as it is; a packet of length 32 or 48 is written once, as
\* one frame with its delimiter, and leaves err_bad_len as it is.
C35_OnlyWellSizedForwarded ==
    [][Receives =>
          LET pkt == rx'[Len(rx')]
              wire == SubSeq(serial', Len(serial) + 1, Len(serial'))
          IN  /\ SubSeq(serial', 1, Len(serial)) = serial
              /\ IF Len(pkt.data) \in {PAYLOAD_LEN_P1, PAYLOAD_LEN_P2}
                 THEN /\ wire = SubSeq(cobs_encode(pkt.mac \o pkt.data).output, 1,
                                       Len(pkt.mac \o pkt.data) + 1) \o <<0>>
                      /\ ZeroCount(wire) = 1
                      /\ err_bad_len' = err_bad_len
                 ELSE /\ wire = <<>>
                      /\ err_bad_len' = err_bad_len + 1
                      /\ led_state' = led_state
    ]_vars

\* A packet of 49 bytes has been dropped after one of 48 bytes was forwarded:
\* one frame on the wire, one bad length counted, the LED toggled once.
C35_Witness ==
    /\ Len(rx) = 2
    /\ Len(rx[1].data) = PAYLOAD_LEN_P2
    /\ Len(rx[2].data) = PAYLOAD_LEN_P2 + 1
    /\ ZeroCount(serial) = 1
    /\ err_bad_len = 1
    /\ led_state

\* This step is a wake; a wake of a configured node builds a payload.
Wakes == cycles'.wakes = cycles.wakes + 1

WakesConfigured == cycles'.configured = cycles.configured + 1

\* C36: sequence numbering.  The sequence field of the payload built in the
\* k-th configured cycle (k = 0, 1, 2, ...) is k mod 65536; s_sequence is
\* incremented once in every configured cycle, whether the transmission
\* succeeded, failed or was skipped, and is left alone in a cycle in which
\* the node is unconfigured.
C36_SequenceNumbering ==
    /\ [](s_sequence = cycles.configured % 65536)
    /\ [][Wakes =>
            IF WakesConfigured
            THEN /\ ReadLE(output'.p, 2, 2) = cycles.configured % 65536
                 /\ s_sequence' = (s_sequence + 1) % 65536
                 /\ cycles'.last \in SendOutcomes
            ELSE /\ s_sequence' = s_sequence
                 /\ output' = output
         ]_vars

\* The 65536th configured cycle has sent sequence 0 after a cycle whose
\* transmission failed, and an unconfigured wake has followed.
C36_Witness ==
    /\ cycles.configured = 65537
    /\ cycles.last = "unconfigured"
    /\ input.fn = "loop"
    /\ ReadLE(output.p, 2, 2) = 0
    /\ s_sequence = 1

\* The first configured cycle after power-on ran in loop(), after a wake of
\* setup() that found the node unconfigured, and its transmission was
\* skipped: sequence 0 sent, s_sequence 1.
C36_WitnessBoot ==
    /\ cycles.configured = 1
    /\ cycles.wakes = 2
    /\ cycles.last = "skipped"
    /\ input.fn = "loop"
    /\ ReadLE(output.p, 2, 2) = 0
    /\ s_sequence = 1

\* C37: on_timeout_check has no effect other than the documented ones.  A
\* call of lane_check_timeout leaves bees_in, bees_out, last_edge_a_ms and
\* last_edge_b_ms as they are, never clears stuck, changes state to IDLE
\* only, and changes nothing at all of a lane in IDLE.
C37_TimeoutCheckFrame ==
    [][\A ch \in Channels :
        StepOn(ch, "check")
        => /\ s_lanes'[ch].bees_in = s_lanes[ch].bees_in
           /\ s_lanes'[ch].bees_out = s_lanes[ch].bees_out
           /\ s_lanes'[ch].last_edge_a_ms = s_lanes[ch].last_edge_a_ms
           /\ s_lanes'[ch].last_edge_b_ms = s_lanes[ch].last_edge_b_ms
           /\ s_lanes[ch].stuck => s_lanes'[ch].stuck
           /\ s_lanes'[ch].state # s_lanes[ch].state => s_lanes'[ch].state = LANE_IDLE
           /\ s_lanes[ch].state = LANE_IDLE => s_lanes'[ch] = s_lanes[ch]
    ]_vars

\* A check has taken a lane with one counted transit from COOLDOWN to IDLE
\* and left its count and its edge stamps in place.
C37_Witness ==
    \E ch \in Channels :
        /\ hist[ch].op = "check" /\ hist[ch].acc /\ hist[ch].pre = LANE_COOLDOWN
        /\ s_lanes[ch].state = LANE_IDLE
        /\ s_lanes[ch].bees_in + s_lanes[ch].bees_out = 1
        /\ s_lanes[ch].last_edge_a_ms # s_lanes[ch].last_edge_b_ms

\* A check has run on an idle lane more than STUCK_BEAM_MS after the lane
\* entered its state, and has changed nothing.
C37_WitnessIdle ==
    \E ch \in Channels :
        /\ hist[ch].op = "check" /\ ~hist[ch].acc /\ hist[ch].pre = LANE_IDLE
        /\ Gt32(Sub32(hist[ch].at, s_lanes[ch].state_enter_ms), STUCK_BEAM_MS)
        /\ ~s_lanes[ch].stuck

\* What holds of the debounce tests: each looks at the stamp of its own beam
\* only, and a handler never writes the stamp of the other beam, so edges on
\* one beam never cause an edge on the other to be debounced.
C38_BeamsIndependent ==
    [][\A ch \in Channels :
        /\ StepOn(ch, "A")
           => /\ s_lanes'[ch].last_edge_b_ms = s_lanes[ch].last_edge_b_ms
              /\ s_lanes'[ch] = s_lanes[ch]
                   <=> Lt32(Sub32(clock, s_lanes[ch].last_edge_a_ms), DEBOUNCE_MS)
        /\ StepOn(ch, "B")
           => /\ s_lanes'[ch].last_edge_a_ms = s_lanes[ch].last_edge_a_ms
              /\ s_lanes'[ch] = s_lanes[ch]
                   <=> Lt32(Sub32(clock, s_lanes[ch].last_edge_b_ms), DEBOUNCE_MS)
    ]_vars

\* C38: debounce rejects only real bounces.  The first edge on a beam after
\* the lane was initialised (no operation has touched the lane yet) is
\* accepted whatever its timestamp: it stamps its beam and starts a transit;
\* and a handler leaves the stamp of the other beam alone.
C38_FirstEdgeAccepted ==
    [][\A ch \in Channels :
        /\ (hist[ch] = NoOp /\ StepOn(ch, "A"))
           => /\ s_lanes'[ch].state = LANE_A_BROKEN
              /\ s_lanes'[ch].last_edge_a_ms = clock
              /\ s_lanes'[ch].last_edge_b_ms = s_lanes[ch].last_edge_b_ms
        /\ (hist[ch] = NoOp /\ StepOn(ch, "B"))
           => /\ s_lanes'[ch].state = LANE_B_BROKEN
              /\ s_lanes'[ch].last_edge_b_ms = clock
              /\ s_lanes'[ch].last_edge_a_ms = s_lanes[ch].last_edge_a_ms
    ]_vars

\* The lanes with every lane whose bit is clear in the mask replaced by a
\* lane with other contents (one transit each way counted, stuck).
DisabledChanged(lanes, mask) ==
    [ch \in Channels |->
       IF BitSet(mask, ch) THEN lanes[ch]
       ELSE [lanes[ch] EXCEPT !.bees_in = 1 - @, !.bees_out = 1 - @, !.stuck = ~@]]

\* C39: only enabled lanes contribute to a snapshot.  stuck_mask is a subset
\* of lane_mask, lane_mask is the configured mask, which the snapshot leaves
\* as it is; a lane whose bit is clear in the mask is not modified, and the
\* result is what it is with other counters and another stuck flag in those
\* lanes: they are not read into it.
C39_OnlyEnabledLanes ==
    [][(pc = "snap" /\ pc' = "report")
       => /\ \A ch \in Channels : BitSet(snap'.stuck_mask, ch) => BitSet(s_lane_mask, ch)
          /\ snap'.lane_mask = s_lane_mask
          /\ s_lane_mask' = s_lane_mask
          /\ \A ch \in Channels : ~BitSet(s_lane_mask, ch) => s_lanes'[ch] = s_lanes[ch]
          /\ snap' = bee_counter_snapshot(DisabledChanged(s_lanes, s_lane_mask),
                                          s_lane_mask, s_last_snapshot_ms, snap_now)
    ]_vars

\* A snapshot with lanes 0 and 2 enabled has reported lane 0 stuck and one
\* transit, while the disabled lane 1, stuck and with counts, is as it was.
C39_Witness ==
    /\ pc = "report"
    /\ snap.lane_mask = 5
    /\ snap.stuck_mask = 1
    /\ snap.bees_in = 1
    /\ s_lanes[1].stuck
    /\ s_lanes[3].bees_in + s_lanes[3].bees_out > 0

====
